---- MODULE Spec2Model ----
(***************************************************************************)
(* Model of InstagramAppiumChecker (src/checker/checker_appium.py): the    *)
(* batch loop of run, the account check state machine check_account with   *)
(* open_profile, and the CSV result store used for resume; and of the web  *)
(* service (src/web/main.py): the job queue with its worker, the thread    *)
(* that runs a job, the daily follow counters of the credentials and the   *)
(* file names of requests.                                                 *)
(*                                                                         *)
(* The automation driver, adb and the file system are the environment:     *)
(* every call of theirs that the code reacts to is a nondeterministic      *)
(* outcome of the action that makes the call.                              *)
(***************************************************************************)
EXTENDS Naturals, Sequences, FiniteSets, TLC

(***************************************************************************)
(* Bounds of the exploration.                                              *)
(***************************************************************************)
\* longest input list
MaxAccounts == 5
\* runs of the checker over the same input and results file
MaxRuns == 2
\* environment responses other than the plain one (live session, profile
\* loads, no dialog, write succeeds) in one behaviour
MaxDeviations == 3
\* a list longer than this is explored with at most LongDeviations
DeepAccounts == 1
\* deviations in one behaviour over a list longer than DeepAccounts
LongDeviations == 1
\* largest max_retries a call of setup_driver is explored with
MaxSetupRetries == 4
\* exploration: the longest list of the runs followed to their end
TermAccounts == 3
\* jobs submitted to the web service
MaxJobs == 2
\* accounts in the files of all jobs together
MaxJobAccounts == 2
\* disturbances in one behaviour of the service: failed reads and writes of
\* the stats file, ends of checker.run other than the end of its list, cancel
\* and stop requests, changes of the date
MaxFaults == 1
\* jobs, accounts in their files and disturbances together in one behaviour
MaxLoad == 4

(***************************************************************************)
(* Program constants.                                                      *)
(***************************************************************************)
\* open_profile: max_retries = 3
ProfileMaxRetries == 3
\* setup_driver: max_retries: int = 3
DriverMaxRetries == 3
\* run: if i % 5 == 0: save_results_to_csv
SaveEvery == 5
\* open_profile: len(page_source) > 1000
PageMinLen == 1000
\* run: batch_size, the values explored
BatchSizes == {2, 3}
\* main.py: MAX_FOLLOWS_PER_DAY = 60
MAX_FOLLOWS_PER_DAY == 60

(***************************************************************************)
(* Python values.                                                          *)
(***************************************************************************)
\* a bool and a str are different values: csv turns the first into the second
PyBool(b) == [type |-> "bool", repr |-> IF b THEN "True" ELSE "False"]
PyStr(s) == [type |-> "str", repr |-> s]
\* truth value of a bool or a str in a condition
Truthy(v) == IF v.type = "bool" THEN v.repr = "True" ELSE v.repr # ""
\* str(v), as csv.DictWriter writes a field
Str(v) == v.repr

\* p in s, for strings
StrIn(p, s) ==
    \E k \in 1..(Len(s) + 1) :
        /\ k + Len(p) - 1 <= Len(s)
        /\ SubSeq(s, k, k + Len(p) - 1) = p

StartsWith(s, p) == Len(p) <= Len(s) /\ SubSeq(s, 1, Len(p)) = p

\* usernames of the input list
Name(k) == "u" \o ToString(k)

\* an input list of n entries, all different, or with entry d a repeat of the
\* entry before it
MkList(n, d) == [k \in 1..n |-> IF k = d /\ k > 1 THEN Name(k - 1) ELSE Name(k)]

\* the input lists explored: up to MaxAccounts entries, all different or the
\* last one a repeat
InputLists == UNION { {MkList(n, 0), MkList(n, n)} : n \in 0..MaxAccounts }

\* text of the exception a driver call raises
Messages == {"timeout"}

VARIABLES
    file,          \* rows of the results file (output_path); <<>>: no file
    input,         \* accounts of the input list (load_accounts_from_csv)
    runNo,         \* runs started so far
    batch_size,    \* run parameters
    resume,
    retry_errors,
    pc,            \* position in run
    accounts,      \* the to-process list
    i,             \* loop index, self._current_index
    results,       \* self.results
    cpc,           \* position in check_account
    result,        \* the row check_account builds
    attempt,       \* open_profile: loop variable
    profile_result,\* open_profile: returned value, "" before it returns
    tries,         \* open_profile: what each attempt of this call saw
    trail,         \* check_account: driver steps and progress reports so far
    caught,        \* check_account: message of the exception its handler caught
    raisedBy,      \* the call whose exception ended run, "" if none
    checked,       \* accounts passed to check_account in this run
    restarts,      \* loop indices before which _restart_session ran
    probed,        \* loop indices at which _is_session_alive ran
    recovered,     \* loop indices at which _recover_session ran
    carried,       \* rows taken over from the file at the start of this run
    startFile,     \* the file as it was when this run started
    lost,          \* loop index at which _recover_session failed, 0 if none
    settled,       \* rows persisted while runs resumed, see RunBegin
    broken,        \* loop index at which _restart_session failed, 0 if none
    paced,         \* loop indices after whose check time.sleep(delay) ran
    on_progress,   \* self.on_progress, the injected observer
    swallowed,     \* status tags at which _report_progress caught its exception
    summary,       \* the summary run reports with 'completed'
    dev,           \* deviations of the environment so far
    setup,         \* a call of setup_driver, step by step
    \* the web service
    CHECKER_AVAILABLE,    \* whether checker_appium could be imported
    instagram_accounts,   \* the credentials, in configured order
    stats_file,           \* content of ACCOUNT_STATS_FILE
    account_stats,        \* the global of that name
    today,                \* date.today(), as a day number
    jobs,                 \* every QueueItem made so far, by order of submission
    job_queue,            \* the deque: indices into jobs
    current_job,          \* index into jobs, 0 for None
    queue_worker_running,
    is_running,           \* execution_state["is_running"]
    tasks,                \* position of each process_queue task
    taskJob,              \* process_queue: its local `job`
    pool,                 \* thread_pool: calls of run_checker_sync waiting
    thpc,                 \* position of the pool's thread in run_checker_sync
    thjob,                \* run_checker_sync: its `job`, 0 when idle
    current_account,      \* run_checker_sync: the credential selected
    started,              \* jobs in the order they entered 'running'
    halted,               \* jobs for which a stop was requested while running
    haltAt,               \* the progress of such a job at the request
    exhaustedAtSubmit,    \* jobs submitted while no credential was available
    loadedStats,          \* the stats the last selection loaded, before reset
    selDay,               \* the day of the last selection
    seen,                 \* counters the last selection saw, with its day
    prevSeen,             \* the same for the selection before it
    followsToday,         \* follows made today with each credential
    normal,               \* rows with status no_warning of the run on the thread
    cancelReq,            \* the last DELETE /queue/{job_id}, and its answer
    faults,               \* disturbances so far, see MaxFaults
    served                \* the last request that named a file, and its answer

batchVars == <<file, input, runNo, batch_size, resume, retry_errors, pc, accounts,
               i, results, cpc, result, attempt, profile_result, tries, trail,
               caught, raisedBy, checked, restarts, probed, recovered, carried,
               startFile, lost, settled, broken, paced, on_progress, swallowed,
               summary, dev>>

config == <<CHECKER_AVAILABLE, instagram_accounts>>
statsVars == <<stats_file, account_stats, today, faults>>
queueVars == <<jobs, job_queue, current_job, queue_worker_running, is_running,
               tasks, taskJob>>
threadVars == <<pool, thpc, thjob, current_account>>
observed == <<started, halted, haltAt, exhaustedAtSubmit, loadedStats, selDay, seen,
              prevSeen, followsToday, normal, cancelReq>>
service == <<config, statsVars, queueVars, threadVars, observed>>

vars == <<batchVars, setup, service, served>>

runParams == <<batch_size, resume, retry_errors>>
checkVars == <<cpc, result, attempt, profile_result, tries, trail, caught>>
history == <<checked, restarts, probed, recovered, carried, startFile, lost,
            settled, broken, paced>>

\* the status tags _report_progress is called with
Tags == {"starting", "session_recovery", "checking", "not_found", "load_failed",
         "error", "warning_detected", "no_warning", "completed"}

\* an observer: given or None, and the tags at which it raises an Exception
Observer(given, raises) == [given |-> given, raises |-> raises]
NoObserver == Observer(FALSE, {})
QuietObserver == Observer(TRUE, {})

\* str(e) of the exception of an observer
ObserverMessage == "observer failed"

\* if self.on_progress: self.on_progress(...) raises
ObserverRaises(observer, tag) == observer.given /\ tag \in observer.raises

\* (mutant) the call of the observer is not inside a try
ReportProgressUncaught(observer, tag) == ObserverRaises(observer, tag)

\* _report_progress: whether an exception leaves it; except Exception catches
\* what the observer raises
ReportProgress(observer, tag) == FALSE

\* the budget of deviations of a behaviour over this input
Budget == IF Len(input) > DeepAccounts THEN LongDeviations ELSE MaxDeviations
Afford(cost) == dev + cost <= Budget
CanDeviate == Afford(1)


(***************************************************************************)
(* Result store.                                                           *)
(***************************************************************************)
\* writer.writerow(result): every field is written as str(field)
CsvRow(r) ==
    [username |-> r.username, has_warning |-> Str(r.has_warning),
     status |-> r.status, screenshot |-> r.screenshot]

\* a row of csv.DictReader: every field is a str
ReadRow(f) ==
    [username |-> f.username, has_warning |-> PyStr(f.has_warning),
     status |-> f.status, screenshot |-> f.screenshot]

\* _load_completed_accounts: skip_statuses
SkipStatuses(retry) ==
    IF retry THEN {"no_warning", "warning_detected", "not_found"}
    ELSE {"no_warning", "warning_detected", "not_found", "error", "load_failed"}

\* any(s in status for s in skip_statuses)
IsSkipStatus(status, retry) == \E s \in SkipStatuses(retry) : StrIn(s, status)

\* the rows of the file that _load_completed_accounts keeps
KeptRow(f, retry) == f.username # "" /\ IsSkipStatus(f.status, retry)

\* _load_completed_accounts(output_path, retry_errors)
LoadCompleted(f, retry) ==
    LET keep(row) == KeptRow(row, retry)
        kept == SelectSeq(f, keep)
    IN  [completed |-> { kept[k].username : k \in 1..Len(kept) },
         existing |-> [k \in 1..Len(kept) |-> ReadRow(kept[k])]]

\* (mutant) only the first entry of the list is looked up
ToProcessFirstOnly(accs, completed) ==
    IF accs # <<>> /\ Head(accs) \in completed THEN Tail(accs) ELSE accs

\* run: accounts = [a for a in accounts if a not in completed]
ToProcess(accs, completed) ==
    LET todo(a) == a \notin completed IN SelectSeq(accs, todo)

\* (mutant) only the newest row is written
SavedFileLastRow(old, res) ==
    IF res = <<>> THEN old ELSE <<CsvRow(res[Len(res)])>>

\* save_results_to_csv: the file it leaves, given the file it finds
SavedFile(old, res) ==
    IF res = <<>> THEN old ELSE [k \in 1..Len(res) |-> CsvRow(res[k])]

(***************************************************************************)
(* Decisions of run.                                                       *)
(***************************************************************************)
\* (mutant) the count is taken one account late
RestartDueOffByOne(idx, n) == idx > 1 /\ idx % n = 0

\* run: if i > 1 and (i - 1) % batch_size == 0
RestartDue(idx, n) == idx > 1 /\ (idx - 1) % n = 0

\* run: if i % 5 == 0
SaveDue(idx) == idx % SaveEvery = 0

\* setup_driver: the attempts fail `fails` times in a row
SetupDriverResult(max_retries, fails) ==
    IF fails < max_retries THEN "ok" ELSE "raise"

\* check_account: the row as created
NewResult(u) ==
    [username |-> u, has_warning |-> PyBool(FALSE), status |-> "unknown",
     screenshot |-> ""]

NoResult == NewResult("")

\* the rows of a file, as a set
RowsOf(f) == { f[k] : k \in 1..Len(f) }

\* the statuses a run with this retry_errors takes as final (spec 4.5: the
\* terminal-status set): the three outcomes of a completed check and, unless
\* errors are retried, error (with or without message) and load_failed
Terminal(status, retry) ==
    \/ status \in {"no_warning", "warning_detected", "not_found"}
    \/ /\ ~retry
       /\ status \in {"error", "load_failed"} \/ StartsWith(status, "error: ")

\* of the rows persisted so far, those a run with this retry_errors takes as
\* final: a run with retry_errors on releases error and load_failed rows
StillSettled(rows, retry) ==
    { r \in rows : r.username # "" /\ Terminal(r.status, retry) }

\* run: the five counts of the summary, each sum(1 for r in self.results if ...)
Summary(res) ==
    LET rows == 1..Len(res)
    IN  [warnings |-> Cardinality({ k \in rows : Truthy(res[k].has_warning) }),
         normal |-> Cardinality({ k \in rows : res[k].status = "no_warning" }),
         not_found |-> Cardinality({ k \in rows : res[k].status = "not_found" }),
         load_failed |-> Cardinality({ k \in rows : res[k].status = "load_failed" }),
         errors |-> Cardinality({ k \in rows :
                                    \/ res[k].status = "error"
                                    \/ StrIn("error:", res[k].status) })]

\* no summary reported yet
NoSummary == Summary(<<>>)

(***************************************************************************)
(* Web service: credentials and their daily follow counters.               *)
(***************************************************************************)
\* usernames of the credentials that can be configured
CredNames == <<"acc1", "acc2">>
Creds == { CredNames[k] : k \in 1..Len(CredNames) }

\* load_instagram_accounts: the lists explored
AccountLists == { SubSeq(CredNames, 1, n) : n \in 0..Len(CredNames) }

\* no credential: the None of get_available_account
NoAccount == ""

\* AccountStats; last_follow_at is a timestamp nothing reads
AccountStats(n, d) == [today_follows |-> n, last_reset_date |-> d]

\* the empty dict
NoStats == [u \in {} |-> AccountStats(0, 0)]

\* reset_daily_stats_if_needed(stats) on day `day`
ResetDailyStatsIfNeeded(stats, day) ==
    [u \in DOMAIN stats |->
        IF stats[u].last_reset_date # day THEN AccountStats(0, day) ELSE stats[u]]

\* stats.get(username, AccountStats()).today_follows
TodayFollows(stats, u) == IF u \in DOMAIN stats THEN stats[u].today_follows ELSE 0

\* (mutant) a credential at the cap still counts as available
GetAvailableAccountAtCap(accs, stats, day) ==
    LET reset == ResetDailyStatsIfNeeded(stats, day)
        free == { k \in 1..Len(accs) :
                    TodayFollows(reset, accs[k]) <= MAX_FOLLOWS_PER_DAY }
    IN  IF free = {} THEN NoAccount
        ELSE accs[CHOOSE k \in free : \A j \in free : k <= j]

\* get_available_account(accounts, stats) on day `day`
GetAvailableAccount(accs, stats, day) ==
    LET reset == ResetDailyStatsIfNeeded(stats, day)
        free == { k \in 1..Len(accs) :
                    TodayFollows(reset, accs[k]) < MAX_FOLLOWS_PER_DAY }
    IN  IF free = {} THEN NoAccount
        ELSE accs[CHOOSE k \in free : \A j \in free : k <= j]

\* increment_follow_count(stats, username) on day `day`
IncrementFollowCount(stats, u, day) ==
    LET old == IF u \in DOMAIN stats THEN stats[u] ELSE AccountStats(0, day)
    IN  [k \in DOMAIN stats \cup {u} |->
            IF k = u THEN AccountStats(old.today_follows + 1, old.last_reset_date)
            ELSE stats[k]]

\* load_account_stats: a missing file and a read error both give {}
LoadAccountStats(f, ok) == IF ok THEN f ELSE NoStats

\* save_account_stats: a write error is printed and passed over
SaveAccountStats(f, stats, ok) == IF ok THEN stats ELSE f

\* the stats files the service may find when it starts on day `day` with the
\* credentials accs: for each of them no record, a record of that day with a
\* counter one below the cap or at the cap, or a record of the day before
StartRecords(day) ==
    { AccountStats(MAX_FOLLOWS_PER_DAY - 1, day),
      AccountStats(MAX_FOLLOWS_PER_DAY, day),
      AccountStats(MAX_FOLLOWS_PER_DAY, day - 1) }
StartFiles(accs, day) ==
    UNION { [D -> StartRecords(day)] :
              D \in SUBSET { accs[k] : k \in 1..Len(accs) } }

\* QueueItem(id, filename, submitted_at); upload: the number of accounts the
\* file lists
QueueItem(filename, n) ==
    [filename |-> filename, upload |-> n, status |-> "pending", progress |-> 0,
     error |-> "", instagram_account |-> NoAccount]

(***************************************************************************)
(* Web service: file names of requests.                                    *)
(***************************************************************************)
\* UPLOAD_DIR and RESULTS_DIR, and any place that is neither
UPLOAD_DIR == "/app/data/uploads"
RESULTS_DIR == "/app/data/results"
Elsewhere == "/etc"

\* s[k:], s[:k-1] and s[k] for a str, positions counted from 1
From(s, k) == SubSeq(s, k, Len(s))
Upto(s, k) == SubSeq(s, 1, k)
Char(s, k) == SubSeq(s, k, k)

\* s.rfind(c) + 1
RFind(s, c) ==
    LET at == { k \in 1..Len(s) : Char(s, k) = c }
    IN  IF at = {} THEN 0 ELSE CHOOSE k \in at : \A j \in at : j <= k

\* str.lower, for the letters of the names explored
LowerChar(c) ==
    CASE c = "C" -> "c" [] c = "S" -> "s" [] c = "V" -> "v" [] OTHER -> c
RECURSIVE Lower(_)
Lower(s) == IF s = "" THEN "" ELSE LowerChar(Char(s, 1)) \o Lower(From(s, 2))

\* Path(filename).name: the last component, empty and '.' components dropped
RECURSIVE PathName(_)
PathName(s) ==
    IF s = "" THEN ""
    ELSE LET k == RFind(s, "/")
             last == From(s, k + 1)
         IN  IF last \in {"", "."}
             THEN IF k = 0 THEN "" ELSE PathName(Upto(s, k - 1))
             ELSE last

\* Path(name).suffix: from the last dot, unless the name starts or ends there
Suffix(name) ==
    LET k == RFind(name, ".")
    IN  IF 1 < k /\ k < Len(name) THEN From(name, k) ELSE ""

\* what base_dir holds under a name: nothing, a regular file, a symbolic link
\* to a file of the same directory or to a file elsewhere
Entries == {"absent", "file", "link_inside", "link_outside"}

\* (base_dir / safe_name).resolve()
Resolve(base_dir, safe_name, entry) ==
    CASE entry = "link_outside" -> [parent |-> Elsewhere, name |-> "target"]
      [] entry = "link_inside" -> [parent |-> base_dir, name |-> "target"]
      [] OTHER -> [parent |-> base_dir, name |-> safe_name]

\* no path: the request was refused
NoPath == [parent |-> "", name |-> ""]

\* (mutant) the name is cut down to its last component and not compared
ResolveSafeCsvPathCutting(base_dir, filename, entry) ==
    LET safe_name == PathName(filename)
        candidate == Resolve(base_dir, safe_name, entry)
    IN  IF filename = "" \/ safe_name \in {"", ".", ".."}
             \/ Lower(Suffix(safe_name)) # ".csv"
             \/ candidate.parent # base_dir
        THEN [status |-> 400, path |-> NoPath]
        ELSE [status |-> 200, path |-> candidate]

\* resolve_safe_csv_path(base_dir, filename): the path it returns, or the
\* status of the HTTPException it raises
ResolveSafeCsvPath(base_dir, filename, entry) ==
    LET safe_name == PathName(filename)
        candidate == Resolve(base_dir, safe_name, entry)
    IN  IF filename = "" THEN [status |-> 400, path |-> NoPath]
        ELSE IF safe_name # filename \/ safe_name \in {".", ".."}
        THEN [status |-> 400, path |-> NoPath]
        ELSE IF Lower(Suffix(safe_name)) # ".csv"
        THEN [status |-> 400, path |-> NoPath]
        ELSE IF candidate.parent # base_dir
        THEN [status |-> 400, path |-> NoPath]
        ELSE [status |-> 200, path |-> candidate]

\* file_path.exists()
Exists(entry) == entry # "absent"

\* the name upload_file gives a file
UploadName == "upload_1.csv"

\* the file names requests are explored with
Filenames ==
    {UploadName, "", "a.csv", "a.CSV", "a.txt", "a", ".csv", "a.csv.", ".", "..",
     "../a.csv", "/a.csv", "d/a.csv", "a.csv/", "./a.csv", "a.csv/.", "..csv",
     "d\\a.csv", "/"}

\* a request that named a file and its answer: the status, the path the name
\* was resolved to, whether a job was queued and whether the file was opened
Served(endpoint, filename, entry, status, path, queued, opened) ==
    [endpoint |-> endpoint, filename |-> filename, entry |-> entry,
     status |-> status, path |-> path, queued |-> queued, opened |-> opened]

NoRequest == Served("", "", "absent", 0, NoPath, FALSE, FALSE)

\* the accounts in the files of these jobs
RECURSIVE Uploaded(_)
Uploaded(js) == IF js = <<>> THEN 0 ELSE Head(js).upload + Uploaded(Tail(js))

\* what a behaviour of the service has taken of its bounds
Load == Len(jobs) + Uploaded(jobs) + faults
CanFault == faults < MaxFaults /\ Load < MaxLoad

\* what a selection saw of a credential
Seen(day, n) == [day |-> day, count |-> n]

\* cancel_queue_job: the n-th request, for this id, answered with this status
CancelRequest(n, job_id, status) == [n |-> n, job_id |-> job_id, status |-> status]
NoCancel == CancelRequest(0, 0, 0)

\* the service and its thread before the first request; nothing observed
ServiceIdle ==
    /\ jobs = <<>>
    /\ job_queue = <<>>
    /\ current_job = 0
    /\ queue_worker_running = FALSE
    /\ is_running = FALSE
    /\ tasks = <<>>
    /\ taskJob = <<>>
    /\ pool = <<>>
    /\ thpc = "idle"
    /\ thjob = 0
    /\ current_account = NoAccount
    /\ started = <<>>
    /\ halted = {}
    /\ haltAt = <<>>
    /\ exhaustedAtSubmit = {}
    /\ loadedStats = NoStats
    /\ selDay = 0
    /\ seen = [c \in Creds |-> Seen(0, 0)]
    /\ prevSeen = [c \in Creds |-> Seen(0, 0)]
    /\ followsToday = [c \in Creds |-> 0]
    /\ normal = 0
    /\ cancelReq = NoCancel
    /\ served = NoRequest
    /\ faults = 0

\* a service that is never started: the checker is run from the command line
NoService ==
    /\ CHECKER_AVAILABLE = TRUE
    /\ instagram_accounts = <<>>
    /\ stats_file = NoStats
    /\ account_stats = NoStats
    /\ today = 1
    /\ ServiceIdle

(***************************************************************************)
(* Initial state: a checker not yet run, no results file.                  *)
(***************************************************************************)
\* a call of setup_driver(device_name, max_retries) on a checker whose driver
\* is `driver`: the loop variable, what each attempt met, the back-offs slept
SetupCall(max_retries, driver) ==
    [pc |-> "attempt", max_retries |-> max_retries, attempt |-> 0,
     driver |-> driver, outs |-> <<>>, sleeps |-> 0]

\* no call of setup_driver is followed step by step
NoSetup == [SetupCall(DriverMaxRetries, "none") EXCEPT !.pc = "idle"]

\* InstagramAppiumChecker(...): no run yet, nothing observed
BatchFresh ==
    /\ batch_size = 2
    /\ resume = FALSE
    /\ retry_errors = FALSE
    /\ pc = "idle"
    /\ accounts = <<>>
    /\ i = 0
    /\ results = <<>>
    /\ cpc = "idle"
    /\ result = NoResult
    /\ attempt = 0
    /\ profile_result = ""
    /\ tries = <<>>
    /\ trail = <<>>
    /\ caught = ""
    /\ raisedBy = ""
    /\ checked = <<>>
    /\ restarts = {}
    /\ probed = {}
    /\ recovered = {}
    /\ carried = <<>>
    /\ startFile = <<>>
    /\ lost = 0
    /\ settled = {}
    /\ broken = 0
    /\ paced = <<>>
    /\ swallowed = {}
    /\ summary = NoSummary
    /\ dev = 0

Init ==
    /\ input \in InputLists
    /\ file = <<>>
    /\ runNo = 0
    /\ BatchFresh
    /\ on_progress = NoObserver
    /\ setup = NoSetup
    /\ NoService

(***************************************************************************)
(* run, up to the loop.                                                    *)
(***************************************************************************)
\* _report_progress was called with these tags: the exceptions it caught
Swallow(tags) ==
    swallowed' = swallowed \cup { t \in tags : ObserverRaises(on_progress, t) }

\* an exception leaves run
RunRaise(by) == pc' = "raised" /\ raisedBy' = by

\* a new checker object is made and run is called
RunBegin ==
    /\ pc \in {"idle", "done", "raised", "returned"}
    /\ runNo < MaxRuns
    /\ runNo' = runNo + 1
    /\ \E n \in BatchSizes, rs \in BOOLEAN, re \in BOOLEAN :
          /\ batch_size' = n
          /\ resume' = rs
          /\ retry_errors' = re
          /\ settled' = IF rs THEN StillSettled(settled \cup RowsOf(file), re)
                         ELSE {}
    /\ pc' = "setup"
    /\ accounts' = <<>>
    /\ i' = 0
    /\ results' = <<>>
    /\ raisedBy' = ""
    /\ checked' = <<>>
    /\ restarts' = {}
    /\ probed' = {}
    /\ recovered' = {}
    /\ carried' = <<>>
    /\ startFile' = file
    /\ lost' = 0
    /\ broken' = 0
    /\ paced' = <<>>
    /\ swallowed' = {}
    /\ summary' = NoSummary
    /\ UNCHANGED <<file, input, dev>>
    /\ UNCHANGED checkVars
    /\ UNCHANGED service
    /\ UNCHANGED on_progress
    /\ UNCHANGED setup
    /\ UNCHANGED served

\* run: self.setup_driver(device_name)
RunSetupDriver ==
    /\ pc = "setup"
    /\ \E fails \in 0..DriverMaxRetries :
          /\ fails > 0 => CanDeviate
          /\ dev' = IF fails > 0 THEN dev + 1 ELSE dev
          /\ IF SetupDriverResult(DriverMaxRetries, fails) = "ok"
             THEN pc' = "login" /\ UNCHANGED raisedBy
             ELSE pc' = "raised" /\ raisedBy' = "setup_driver"
    /\ UNCHANGED <<file, input, runNo, accounts, i, results>>
    /\ UNCHANGED <<runParams, checkVars, history>>
    /\ UNCHANGED summary
    /\ UNCHANGED service
    /\ UNCHANGED swallowed
    /\ UNCHANGED on_progress
    /\ UNCHANGED setup
    /\ UNCHANGED served

\* run: login, load_accounts_from_csv and the resume step
RunLogin ==
    /\ pc = "login"
    /\ \E ok \in BOOLEAN :
          /\ ~ok => CanDeviate
          /\ dev' = IF ok THEN dev ELSE dev + 1
          /\ IF ok
             THEN LET loaded == LoadCompleted(file, retry_errors)
                  IN  /\ pc' = "loop"
                      /\ IF resume /\ loaded.completed # {}
                         THEN /\ accounts' = ToProcess(input, loaded.completed)
                              /\ results' = loaded.existing
                              /\ carried' = loaded.existing
                         ELSE /\ accounts' = input
                              /\ UNCHANGED <<results, carried>>
             ELSE /\ pc' = "returned"
                  /\ UNCHANGED <<accounts, results, carried>>
    /\ UNCHANGED <<file, input, runNo, i, raisedBy>>
    /\ UNCHANGED <<runParams, checkVars>>
    /\ UNCHANGED <<checked, restarts, probed, recovered, startFile, lost, settled>>
    /\ UNCHANGED <<broken, paced>>
    /\ UNCHANGED summary
    /\ UNCHANGED service
    /\ UNCHANGED swallowed
    /\ UNCHANGED on_progress
    /\ UNCHANGED setup
    /\ UNCHANGED served


(***************************************************************************)
(* run: the loop over the to-process list.                                 *)
(***************************************************************************)
\* for i, account in enumerate(accounts, 1), and the end of the loop
LoopNext ==
    /\ pc = "loop"
    /\ IF i < Len(accounts)
       THEN /\ i' = i + 1
            /\ Swallow({"starting"})
            /\ IF ReportProgress(on_progress, "starting")
               THEN RunRaise("_report_progress")
               ELSE pc' = "probe" /\ UNCHANGED raisedBy
       ELSE /\ i' = i
            /\ pc' = "finalsave"
            /\ UNCHANGED <<raisedBy, swallowed>>
    /\ UNCHANGED <<file, input, runNo, accounts, results, dev>>
    /\ UNCHANGED <<runParams, checkVars, history>>
    /\ UNCHANGED summary
    /\ UNCHANGED service
    /\ UNCHANGED on_progress
    /\ UNCHANGED setup
    /\ UNCHANGED served

\* (mutant) the result of setup_driver is not looked at
RecoverSessionAlwaysTrue(fails) == TRUE

\* _recover_session: quit is best effort, setup_driver decides
RecoverSession(fails) == SetupDriverResult(DriverMaxRetries, fails) = "ok"

\* run: if not self._is_session_alive(): ... if not self._recover_session(): break
Probe ==
    /\ pc = "probe"
    /\ \E alive \in BOOLEAN, fails \in {0, DriverMaxRetries} :
          /\ alive => fails = 0
          /\ ~alive => CanDeviate
          /\ dev' = IF alive THEN dev ELSE dev + 1
          /\ probed' = probed \cup {i}
          /\ recovered' = IF alive THEN recovered ELSE recovered \cup {i}
          /\ lost' = IF ~alive /\ fails = DriverMaxRetries THEN i ELSE lost
          /\ Swallow(IF alive THEN {} ELSE {"session_recovery"})
          /\ IF ~alive /\ ReportProgress(on_progress, "session_recovery")
             THEN RunRaise("_report_progress")
             ELSE /\ pc' = IF alive \/ RecoverSession(fails) THEN "restart"
                            ELSE "finalsave"
                  /\ UNCHANGED raisedBy
    /\ UNCHANGED <<file, input, runNo, accounts, i, results>>
    /\ UNCHANGED <<runParams, checkVars>>
    /\ UNCHANGED <<checked, restarts, carried, startFile, settled, broken, paced>>
    /\ UNCHANGED summary
    /\ UNCHANGED service
    /\ UNCHANGED on_progress
    /\ UNCHANGED setup
    /\ UNCHANGED served

\* (mutant) the exception is caught and not raised again
RestartSessionSwallowing(quit_ok, fails) == TRUE

\* _restart_session: whether it returns; an exception of driver.quit or of
\* setup_driver is raised again, _go_home has none
RestartSession(quit_ok, fails) ==
    quit_ok /\ SetupDriverResult(DriverMaxRetries, fails) = "ok"

\* run: the planned restart, then the call of check_account
Restart ==
    /\ pc = "restart"
    /\ \E quit_ok \in BOOLEAN, fails \in {0, DriverMaxRetries} :
          LET ok == quit_ok /\ fails = 0
          IN
          /\ ~quit_ok => fails = 0
          /\ ~ok => RestartDue(i, batch_size) /\ CanDeviate
          /\ dev' = IF ok THEN dev ELSE dev + 1
          /\ restarts' = IF RestartDue(i, batch_size) THEN restarts \cup {i}
                         ELSE restarts
          /\ broken' = IF ok THEN broken ELSE i
          /\ IF RestartDue(i, batch_size) => RestartSession(quit_ok, fails)
             THEN /\ pc' = "check"
                  /\ cpc' = "begin"
                  /\ checked' = Append(checked, accounts[i])
                  /\ UNCHANGED raisedBy
             ELSE /\ pc' = "raised"
                  /\ raisedBy' = "_restart_session"
                  /\ UNCHANGED <<cpc, checked>>
    /\ UNCHANGED <<file, input, runNo, accounts, i, results>>
    /\ UNCHANGED <<runParams, result, attempt, profile_result, tries, trail, caught>>
    /\ UNCHANGED <<probed, recovered, carried, startFile, lost, settled, paced>>
    /\ UNCHANGED summary
    /\ UNCHANGED service
    /\ UNCHANGED swallowed
    /\ UNCHANGED on_progress
    /\ UNCHANGED setup
    /\ UNCHANGED served

\* (mutant) the row replaces the rows so far
ResultsAppendReplacing(res, row) == <<row>>

\* run: self.results.append(result)
ResultsAppend(res, row) == Append(res, row)

\* run: result = self.check_account(account) has returned; the row is appended
AppendResult ==
    /\ pc = "check"
    /\ cpc = "return"
    /\ results' = ResultsAppend(results, result)
    /\ pc' = "midsave"
    /\ cpc' = "idle"
    /\ result' = NoResult
    /\ attempt' = 0
    /\ profile_result' = ""
    /\ tries' = <<>>
    /\ trail' = <<>>
    /\ caught' = ""
    /\ UNCHANGED <<file, input, runNo, accounts, i, raisedBy, dev>>
    /\ UNCHANGED <<runParams, history>>
    /\ UNCHANGED summary
    /\ UNCHANGED service
    /\ UNCHANGED swallowed
    /\ UNCHANGED on_progress
    /\ UNCHANGED setup
    /\ UNCHANGED served

\* run: if i % 5 == 0: self.save_results_to_csv(output_path)
MidSave ==
    /\ pc = "midsave"
    /\ \E ok \in BOOLEAN :
          /\ ~ok => SaveDue(i) /\ results # <<>> /\ CanDeviate
          /\ dev' = IF ok THEN dev ELSE dev + 1
          /\ IF ok
             THEN /\ file' = IF SaveDue(i) THEN SavedFile(file, results) ELSE file
                  /\ pc' = "sleep"
                  /\ UNCHANGED raisedBy
             ELSE /\ pc' = "raised"
                  /\ raisedBy' = "save_results_to_csv"
                  /\ UNCHANGED file
    /\ UNCHANGED <<input, runNo, accounts, i, results>>
    /\ UNCHANGED <<runParams, checkVars, history>>
    /\ UNCHANGED summary
    /\ UNCHANGED service
    /\ UNCHANGED swallowed
    /\ UNCHANGED on_progress
    /\ UNCHANGED setup
    /\ UNCHANGED served

\* (mutant) the delay before the last account is left out
SleepDueButLast(idx, n) == idx < n - 1

\* run: if i < len(accounts)
SleepDue(idx, n) == idx < n

\* run: if i < len(accounts): time.sleep(delay)
Sleep ==
    /\ pc = "sleep"
    /\ pc' = "loop"
    /\ paced' = IF SleepDue(i, Len(accounts)) THEN Append(paced, i) ELSE paced
    /\ UNCHANGED <<file, input, runNo, accounts, i, results, raisedBy, dev>>
    /\ UNCHANGED <<runParams, checkVars>>
    /\ UNCHANGED <<checked, restarts, probed, recovered, carried, startFile, lost,
                   settled, broken>>
    /\ UNCHANGED summary
    /\ UNCHANGED service
    /\ UNCHANGED swallowed
    /\ UNCHANGED on_progress
    /\ UNCHANGED setup
    /\ UNCHANGED served

\* run: the save after the loop, the summary and driver.quit
FinalSave ==
    /\ pc = "finalsave"
    /\ \E ok \in BOOLEAN :
          /\ ~ok => results # <<>> /\ CanDeviate
          /\ dev' = IF ok THEN dev ELSE dev + 1
          /\ IF ok
             THEN /\ file' = SavedFile(file, results)
                  /\ summary' = Summary(results)
                  /\ Swallow({"completed"})
                  /\ IF ReportProgress(on_progress, "completed")
                     THEN RunRaise("_report_progress")
                     ELSE pc' = "done" /\ UNCHANGED raisedBy
             ELSE /\ RunRaise("save_results_to_csv")
                  /\ UNCHANGED <<file, summary, swallowed>>
    /\ UNCHANGED <<input, runNo, accounts, i, results>>
    /\ UNCHANGED <<runParams, checkVars, history>>
    /\ UNCHANGED service
    /\ UNCHANGED on_progress
    /\ UNCHANGED setup
    /\ UNCHANGED served


(***************************************************************************)
(* open_profile.                                                           *)
(***************************************************************************)
\* what one navigation attempt meets: an exception of adb or of the driver,
\* or a page source
Raised == [raised |-> TRUE, unavailable |-> FALSE, length |-> 0,
           recognizable |-> FALSE]
Page(u, n, r) == [raised |-> FALSE, unavailable |-> u, length |-> n,
                  recognizable |-> r]
Pages == { Page(u, n, r) : u \in BOOLEAN, n \in {PageMinLen, PageMinLen + 1},
                           r \in BOOLEAN }
PlainPage == Page(FALSE, PageMinLen + 1, TRUE)
Observations == {Raised} \cup Pages

\* (mutant) the test for content comes first
ClassifyPageContentFirst(p) ==
    IF p.length > PageMinLen /\ p.recognizable THEN "success"
    ELSE IF p.unavailable THEN "not_found"
    ELSE "blank"

\* open_profile: the two tests on page_source, in the order of the code
ClassifyPage(p) ==
    IF p.unavailable THEN "not_found"
    ELSE IF p.length > PageMinLen /\ p.recognizable THEN "success"
    ELSE "blank"

\* (mutant) a failed attempt is always followed by another
AttemptResultRetrying(att, obs) ==
    IF obs.raised \/ ClassifyPage(obs) = "blank" THEN "" ELSE ClassifyPage(obs)

\* open_profile: one pass of the loop body with loop variable att;
\* "" stands for going round the loop again
AttemptResult(att, obs) ==
    IF obs.raised
    THEN IF att < ProfileMaxRetries - 1 THEN "" ELSE "error"
    ELSE IF ClassifyPage(obs) = "blank"
         THEN IF att < ProfileMaxRetries - 1 THEN "" ELSE "load_failed"
         ELSE ClassifyPage(obs)

\* open_profile: self._go_home() before the next attempt
HomeBeforeRetry(att, obs) ==
    ~obs.raised /\ ClassifyPage(obs) = "blank" /\ att < ProfileMaxRetries - 1

(***************************************************************************)
(* check_account.                                                          *)
(***************************************************************************)
\* (mutant) the try block ends before the screenshot is taken
InTryWithoutScreenshot(step) ==
    step \in {"open_profile", "normalize", "click_follow", "warning_check",
              "unfollow", "go_home"}

\* the steps inside try: ... except Exception
InTry(step) ==
    step \in {"open_profile", "normalize", "click_follow", "warning_check",
              "screenshot", "unfollow", "go_home"}

\* _save_screenshot: the path it returns
ScreenshotPath(u) == "screenshots/" \o u \o ".png"

\* except Exception as e: the row
ErrorRow(r, msg) == [r EXCEPT !.status = "error: " \o msg]

\* if warning_detected: the row before the screenshot
WarningRow(r) ==
    [r EXCEPT !.has_warning = PyBool(TRUE), !.status = "warning_detected"]

\* else: the row
NoWarningRow(r) ==
    [r EXCEPT !.has_warning = PyBool(FALSE), !.status = "no_warning"]

\* (mutant) the navigation outcome is not put into the row
ProfileFailedRowUnknown(r, outcome) == r

\* if profile_result != 'success': result['status'] = profile_result
ProfileFailedRow(r, outcome) == [r EXCEPT !.status = outcome]

\* (mutant) the unfollow is made on both branches
UnfollowDueAlways(warning_detected) == TRUE

\* if warning_detected: ... else: ... self._unfollow()
UnfollowDue(warning_detected) == ~warning_detected

\* an exception raised at `step` of check_account, after _report_progress was
\* called with `tags` in that step: the handler of check_account reports it,
\* unless it is raised outside the try block or in the handler itself
Raise(step, msg, tags) ==
    IF InTry(step) /\ ~ReportProgress(on_progress, "error")
    THEN /\ result' = ErrorRow(result, msg)
         /\ caught' = msg
         /\ trail' = trail \o <<step, "report:error", "go_home">>
         /\ cpc' = "return"
         /\ Swallow(tags \cup {"error"})
         /\ UNCHANGED <<pc, raisedBy>>
    ELSE /\ RunRaise("check_account")
         /\ cpc' = "idle"
         /\ trail' = Append(trail, step)
         /\ Swallow(tags)
         /\ UNCHANGED <<result, caught>>

\* check_account: the row is created, the start is reported
CheckBegin ==
    /\ pc = "check"
    /\ cpc = "begin"
    /\ result' = NewResult(accounts[i])
    /\ trail' = <<"report:checking">>
    /\ Swallow({"checking"})
    /\ IF ReportProgress(on_progress, "checking")
       THEN RunRaise("check_account") /\ cpc' = "idle"
       ELSE cpc' = "open_profile" /\ UNCHANGED <<pc, raisedBy>>
    /\ attempt' = 0
    /\ profile_result' = ""
    /\ tries' = <<>>
    /\ caught' = ""
    /\ UNCHANGED <<file, input, runNo, accounts, i, results, dev>>
    /\ UNCHANGED <<runParams, history>>
    /\ UNCHANGED summary
    /\ UNCHANGED service
    /\ UNCHANGED on_progress
    /\ UNCHANGED setup
    /\ UNCHANGED served

\* open_profile: one attempt; when open_profile returns, check_account's
\* test of profile_result
OpenProfileAttempt ==
    /\ pc = "check"
    /\ cpc = "open_profile"
    /\ attempt < ProfileMaxRetries
    /\ \E obs \in Observations :
          LET r == AttemptResult(attempt, obs)
              home == IF HomeBeforeRetry(attempt, obs) THEN <<"go_home">>
                      ELSE <<>>
          IN  /\ obs # PlainPage => CanDeviate
              /\ dev' = IF obs = PlainPage THEN dev ELSE dev + 1
              /\ tries' = Append(tries, obs)
              /\ profile_result' = r
              /\ attempt' = IF r = "" THEN attempt + 1 ELSE attempt
              /\ IF r = ""
                 THEN /\ trail' = trail \o <<"navigate">> \o home
                      /\ UNCHANGED <<cpc, result, pc, caught, raisedBy, swallowed>>
                 ELSE IF r = "success"
                 THEN /\ trail' = Append(trail, "navigate")
                      /\ cpc' = "normalize"
                      /\ UNCHANGED <<result, pc, caught, raisedBy, swallowed>>
                 ELSE IF ReportProgress(on_progress, r)
                 THEN Raise("open_profile", ObserverMessage, {r})
                 ELSE /\ trail' = trail \o <<"navigate", "report:" \o r>>
                      /\ result' = ProfileFailedRow(result, r)
                      /\ cpc' = "return"
                      /\ Swallow({r})
                      /\ UNCHANGED <<pc, caught, raisedBy>>
    /\ UNCHANGED <<file, input, runNo, accounts, i, results>>
    /\ UNCHANGED <<runParams, history>>
    /\ UNCHANGED summary
    /\ UNCHANGED service
    /\ UNCHANGED on_progress
    /\ UNCHANGED setup
    /\ UNCHANGED served

\* check_account: wait for the follow button, undo an existing follow
Normalize ==
    /\ pc = "check"
    /\ cpc = "normalize"
    /\ \E out \in {"not_following", "following", "raise"} :
          /\ out # "not_following" => CanDeviate
          /\ dev' = IF out = "not_following" THEN dev ELSE dev + 1
          /\ IF out = "raise"
             THEN \E msg \in Messages : Raise("normalize", msg, {})
             ELSE /\ trail' = trail \o (IF out = "following"
                                        THEN <<"normalize", "unfollow_first">>
                                        ELSE <<"normalize">>)
                  /\ cpc' = "click_follow"
                  /\ UNCHANGED <<pc, result, caught, raisedBy, swallowed>>
    /\ UNCHANGED <<file, input, runNo, accounts, i, results>>
    /\ UNCHANGED <<attempt, profile_result, tries>>
    /\ UNCHANGED <<runParams, history>>
    /\ UNCHANGED summary
    /\ UNCHANGED service
    /\ UNCHANGED on_progress
    /\ UNCHANGED setup
    /\ UNCHANGED served

\* check_account: click the follow button, or tap where it should be
ClickFollow ==
    /\ pc = "check"
    /\ cpc = "click_follow"
    /\ \E out \in {"clicked", "tap", "raise"} :
          /\ out # "clicked" => CanDeviate
          /\ dev' = IF out = "clicked" THEN dev ELSE dev + 1
          /\ IF out = "raise"
             THEN \E msg \in Messages : Raise("click_follow", msg, {"checking"})
             ELSE IF ReportProgress(on_progress, "checking")
             THEN Raise("click_follow", ObserverMessage, {"checking"})
             ELSE /\ trail' = trail \o <<"report:checking", out>>
                  /\ cpc' = "warning_check"
                  /\ Swallow({"checking"})
                  /\ UNCHANGED <<pc, result, caught, raisedBy>>
    /\ UNCHANGED <<file, input, runNo, accounts, i, results>>
    /\ UNCHANGED <<attempt, profile_result, tries>>
    /\ UNCHANGED <<runParams, history>>
    /\ UNCHANGED summary
    /\ UNCHANGED service
    /\ UNCHANGED on_progress
    /\ UNCHANGED setup
    /\ UNCHANGED served

\* check_account: _check_and_dismiss_pending_dialog and _check_fraud_warning;
\* neither raises, a failure of the driver in them reads as "no warning"
WarningCheck ==
    /\ pc = "check"
    /\ cpc = "warning_check"
    /\ \E warning_detected \in BOOLEAN :
          /\ warning_detected => CanDeviate
          /\ dev' = IF warning_detected THEN dev + 1 ELSE dev
          /\ IF warning_detected
             THEN /\ result' = WarningRow(result)
                  /\ trail' = trail \o <<"pending_check", "warning_check",
                                         "warning_details">>
                  /\ cpc' = "screenshot"
                  /\ UNCHANGED <<pc, caught, raisedBy, swallowed>>
             ELSE IF ReportProgress(on_progress, "no_warning")
             THEN Raise("warning_check", ObserverMessage, {"no_warning"})
             ELSE /\ result' = NoWarningRow(result)
                  /\ trail' = trail \o <<"pending_check", "warning_check",
                                         "report:no_warning">>
                  /\ cpc' = IF UnfollowDue(warning_detected) THEN "unfollow"
                            ELSE "go_home"
                  /\ Swallow({"no_warning"})
                  /\ UNCHANGED <<pc, caught, raisedBy>>
    /\ UNCHANGED <<file, input, runNo, accounts, i, results>>
    /\ UNCHANGED <<attempt, profile_result, tries>>
    /\ UNCHANGED <<runParams, history>>
    /\ UNCHANGED summary
    /\ UNCHANGED service
    /\ UNCHANGED on_progress
    /\ UNCHANGED setup
    /\ UNCHANGED served

\* check_account: _save_screenshot, the report and _dismiss_warning
Screenshot ==
    /\ pc = "check"
    /\ cpc = "screenshot"
    /\ \E ok \in BOOLEAN :
          /\ ~ok => CanDeviate
          /\ dev' = IF ok THEN dev ELSE dev + 1
          /\ IF ok /\ ReportProgress(on_progress, "warning_detected")
             THEN Raise("screenshot", ObserverMessage, {"warning_detected"})
             ELSE IF ok
             THEN /\ result' = [result EXCEPT
                                   !.screenshot = ScreenshotPath(result.username)]
                  /\ Swallow({"warning_detected"})
                  /\ trail' = trail \o <<"screenshot", "report:warning_detected",
                                         "dismiss_warning">>
                  /\ cpc' = IF UnfollowDue(TRUE) THEN "unfollow" ELSE "go_home"
                  /\ UNCHANGED <<pc, caught, raisedBy>>
             ELSE \E msg \in Messages : Raise("screenshot", msg, {})
    /\ UNCHANGED <<file, input, runNo, accounts, i, results>>
    /\ UNCHANGED <<attempt, profile_result, tries>>
    /\ UNCHANGED <<runParams, history>>
    /\ UNCHANGED summary
    /\ UNCHANGED service
    /\ UNCHANGED on_progress
    /\ UNCHANGED setup
    /\ UNCHANGED served

\* _unfollow: a missing button is passed over, another exception is not
Unfollow ==
    /\ pc = "check"
    /\ cpc = "unfollow"
    /\ \E out \in {"unfollowed", "absent", "raise"} :
          /\ out # "unfollowed" => CanDeviate
          /\ dev' = IF out = "unfollowed" THEN dev ELSE dev + 1
          /\ IF out = "raise"
             THEN \E msg \in Messages : Raise("unfollow", msg, {})
             ELSE /\ trail' = trail \o (IF out = "absent"
                                        THEN <<"unfollow", "no_button">>
                                        ELSE <<"unfollow">>)
                  /\ cpc' = "go_home"
                  /\ UNCHANGED <<pc, result, caught, raisedBy, swallowed>>
    /\ UNCHANGED <<file, input, runNo, accounts, i, results>>
    /\ UNCHANGED <<attempt, profile_result, tries>>
    /\ UNCHANGED <<runParams, history>>
    /\ UNCHANGED summary
    /\ UNCHANGED service
    /\ UNCHANGED on_progress
    /\ UNCHANGED setup
    /\ UNCHANGED served

\* check_account: self._go_home(); return result
GoHome ==
    /\ pc = "check"
    /\ cpc = "go_home"
    /\ trail' = Append(trail, "go_home")
    /\ cpc' = "return"
    /\ UNCHANGED <<file, input, runNo, pc, accounts, i, results, raisedBy, dev>>
    /\ UNCHANGED <<result, attempt, profile_result, tries, caught>>
    /\ UNCHANGED <<runParams, history>>
    /\ UNCHANGED summary
    /\ UNCHANGED service
    /\ UNCHANGED swallowed
    /\ UNCHANGED on_progress
    /\ UNCHANGED setup
    /\ UNCHANGED served

Next ==
    \/ RunBegin
    \/ RunSetupDriver
    \/ RunLogin
    \/ LoopNext
    \/ Probe
    \/ Restart
    \/ CheckBegin
    \/ OpenProfileAttempt
    \/ Normalize
    \/ ClickFollow
    \/ WarningCheck
    \/ Screenshot
    \/ Unfollow
    \/ GoHome
    \/ AppendResult
    \/ MidSave
    \/ Sleep
    \/ FinalSave

Spec == Init /\ [][Next]_vars

(***************************************************************************)
(* setup_driver, step by step, for any max_retries: called by run on a     *)
(* checker without driver, by _recover_session and _restart_session on a   *)
(* checker whose driver is dead or was quit.                               *)
(***************************************************************************)
\* what one connection attempt meets: the session is made and configured, the
\* session is refused (webdriver.Remote raises), or the session is made and
\* implicitly_wait raises
SetupOutcomes == {"ok", "refused", "wait_failed"}

SetupInit ==
    /\ input = <<>>
    /\ file = <<>>
    /\ runNo = 0
    /\ BatchFresh
    /\ on_progress = NoObserver
    /\ setup \in { SetupCall(n, d) : n \in 0..MaxSetupRetries, d \in {"none", "dead"} }
    /\ NoService

\* for attempt in range(max_retries)
SetupLoop(att, max_retries) == att < max_retries

\* setup_driver: one pass of the loop body up to the back-off, or the end of
\* the loop
SetupAttempt ==
    /\ setup.pc = "attempt"
    /\ IF SetupLoop(setup.attempt, setup.max_retries)
       THEN \E out \in SetupOutcomes :
               setup' = [setup EXCEPT
                           !.outs = Append(@, out),
                           !.driver = IF out = "refused" THEN @ ELSE "live",
                           !.pc = IF out = "ok" THEN "returned"
                                  ELSE IF setup.attempt < setup.max_retries - 1
                                       THEN "sleep"
                                       ELSE "raised"]
       ELSE setup' = [setup EXCEPT !.pc = "returned"]
    /\ UNCHANGED <<batchVars, service>>
    /\ UNCHANGED served

\* setup_driver: time.sleep(5), then the next pass
SetupBackoff ==
    /\ setup.pc = "sleep"
    /\ setup' = [setup EXCEPT !.pc = "attempt", !.attempt = @ + 1,
                              !.sleeps = @ + 1]
    /\ UNCHANGED <<batchVars, service>>
    /\ UNCHANGED served

SetupNext ==
    \/ SetupAttempt
    \/ SetupBackoff

SetupSpec == SetupInit /\ [][SetupNext]_vars

(***************************************************************************)
(* Runs over a results file that earlier runs left behind, possibly runs   *)
(* over another input list: the file holds rows as check_account returns   *)
(* them and save_results_to_csv writes them.                               *)
(***************************************************************************)
\* a username that is not in any input list explored
OldName == "old"

\* the row check_account returns with this status
RowWithStatus(u, status) ==
    IF status = "warning_detected"
    THEN [WarningRow(NewResult(u)) EXCEPT !.screenshot = ScreenshotPath(u)]
    ELSE [NewResult(u) EXCEPT !.status = status]

\* statuses of the rows in the file found: two outcomes of a completed
\* check, a navigation that failed, an exception with a message as in
\* Messages and one whose message holds the name of a status
OldStatuses ==
    {"no_warning", "warning_detected", "load_failed", "error: timeout",
     "error: not_found"}

\* files found: none, one row, or a row of the first account of the list
\* followed by a row of an account not in the list
OldFiles ==
    {<<>>}
    \cup { <<CsvRow(RowWithStatus(u, s))>> : u \in {Name(1), OldName},
                                             s \in OldStatuses }
    \cup { <<CsvRow(RowWithStatus(Name(1), s)), CsvRow(RowWithStatus(OldName, t))>> :
               s \in OldStatuses, t \in OldStatuses }

ResumeInit ==
    /\ input \in { MkList(n, 0) : n \in 0..DeepAccounts }
    /\ file \in OldFiles
    \* the runs before left the file; the one run explored is the last
    /\ runNo = MaxRuns - 1
    /\ BatchFresh
    /\ on_progress = NoObserver
    /\ setup = NoSetup
    /\ NoService

ResumeSpec == ResumeInit /\ [][Next]_vars

(***************************************************************************)
(* One run from its start to its end, with the scheduling of a sequential  *)
(* program: every driver call returns or raises, so run goes on as long as *)
(* it has a next step.                                                     *)
(***************************************************************************)
TerminationInit ==
    /\ input \in { MkList(n, 0) : n \in 0..TermAccounts }
    /\ file = <<>>
    /\ runNo = MaxRuns - 1
    /\ BatchFresh
    /\ on_progress = NoObserver
    /\ setup = NoSetup
    /\ NoService

TerminationSpec == TerminationInit /\ [][Next]_vars /\ WF_vars(Next)

(***************************************************************************)
(* Runs of a checker that was given an observer, as the web service does:  *)
(* a run over a short list, with an observer that raises at no status tag, *)
(* at one of them or at all of them, or with no observer.                  *)
(***************************************************************************)
Observers ==
    {NoObserver, Observer(TRUE, Tags)}
    \cup { Observer(TRUE, raises) : raises \in {{}} \cup { {t} : t \in Tags } }

ObserverInit ==
    /\ input \in { MkList(n, 0) : n \in 0..DeepAccounts }
    /\ file = <<>>
    /\ runNo = MaxRuns - 1
    /\ BatchFresh
    /\ on_progress \in Observers
    /\ setup = NoSetup
    /\ NoService

ObserverSpec == ObserverInit /\ [][Next]_vars

(***************************************************************************)
(* Web service: requests, the queue worker and the thread of the pool.     *)
(*                                                                         *)
(* The handlers and process_queue run on the event loop: a step of theirs  *)
(* is the code between two awaits that suspend (queue_lock is never held   *)
(* across an await, so taking it does not suspend). run_checker_sync runs  *)
(* on the one thread of thread_pool, in parallel with the event loop.      *)
(***************************************************************************)
WebInit ==
    /\ input = <<>>
    /\ file = <<>>
    /\ runNo = 0
    /\ BatchFresh
    /\ on_progress = QuietObserver
    /\ setup = NoSetup
    /\ CHECKER_AVAILABLE \in BOOLEAN
    \* the stub reads neither the credentials nor the stats
    /\ instagram_accounts \in IF CHECKER_AVAILABLE THEN AccountLists ELSE {<<>>}
    /\ today = 1
    /\ stats_file \in StartFiles(instagram_accounts, 1)
    \* startup_event
    /\ account_stats = ResetDailyStatsIfNeeded(LoadAccountStats(stats_file, TRUE), 1)
    /\ ServiceIdle

\* every configured credential has used up today's follows, by the stats file
AllAtCap ==
    /\ instagram_accounts # <<>>
    /\ \A k \in 1..Len(instagram_accounts) :
          LET c == instagram_accounts[k]
          IN  /\ c \in DOMAIN stats_file
              /\ stats_file[c].last_reset_date = today
              /\ stats_file[c].today_follows >= MAX_FOLLOWS_PER_DAY

\* the answer of an endpoint that resolves `filename` in base_dir: 400 from
\* resolve_safe_csv_path, 404 when the path does not exist, 200 otherwise
Answer(base_dir, filename, entry) ==
    LET r == ResolveSafeCsvPath(base_dir, filename, entry)
    IN  IF r.status = 200 /\ ~Exists(entry) THEN [r EXCEPT !.status = 404] ELSE r

\* the answers to the requests explored
Answers ==
    [base_dir \in {UPLOAD_DIR, RESULTS_DIR} |->
        [filename \in Filenames |->
            [entry \in Entries |-> Answer(base_dir, filename, entry)]]]

\* start_checker: POST /start?filename=..., the file listing n accounts
StartChecker(filename, entry) ==
    LET a == Answers[UPLOAD_DIR][filename][entry]
    IN  /\ Len(jobs) < MaxJobs
        /\ served' = Served("start", filename, entry, a.status, a.path,
                            a.status = 200, FALSE)
        /\ IF a.status = 200
           THEN /\ \E n \in 0..(MaxJobAccounts - Uploaded(jobs)) :
                      /\ Load + 1 + n <= MaxLoad
                      /\ jobs' = Append(jobs, QueueItem(filename, n))
                /\ job_queue' = Append(job_queue, Len(jobs) + 1)
                /\ tasks' = Append(tasks, IF queue_worker_running THEN "none"
                                          ELSE "scheduled")
                /\ taskJob' = Append(taskJob, 0)
                /\ haltAt' = Append(haltAt, 0)
                /\ exhaustedAtSubmit' =
                      IF AllAtCap THEN exhaustedAtSubmit \cup {Len(jobs) + 1}
                      ELSE exhaustedAtSubmit
           ELSE UNCHANGED <<jobs, job_queue, tasks, taskJob, haltAt,
                            exhaustedAtSubmit>>
        /\ UNCHANGED <<current_job, queue_worker_running, is_running>>
        /\ UNCHANGED <<started, halted, loadedStats, selDay, seen, prevSeen,
                       followsToday>>
        /\ UNCHANGED <<batchVars, config, statsVars, threadVars>>
        /\ UNCHANGED setup
        /\ UNCHANGED <<normal, cancelReq>>

\* download_result: GET /results/{filename}
DownloadResult(filename, entry) ==
    LET a == Answers[RESULTS_DIR][filename][entry]
    IN  /\ served' = Served("download", filename, entry, a.status, a.path,
                            FALSE, a.status = 200)
        /\ UNCHANGED <<batchVars, setup, service>>

\* (mutant) the flag is not looked at
WorkerMayEnterAlways(flag) == TRUE

\* process_queue: if queue_worker_running: return
WorkerMayEnter(flag) == ~flag

\* (mutant) the newest job is taken
PopRight(q) == [job |-> q[Len(q)], rest |-> SubSeq(q, 1, Len(q) - 1)]

\* job_queue.popleft()
PopLeft(q) == [job |-> Head(q), rest |-> Tail(q)]

\* run_checker, stub mode: one pass of the loop body, or the end of the loop
StubIteration(job, running) ==
    IF job.progress < job.upload
    THEN IF ~running THEN [job EXCEPT !.status = "cancelled"]
         ELSE [job EXCEPT !.progress = @ + 1]
    ELSE [job EXCEPT !.status = "completed"]

\* (mutant) the worker leaves its flag as it is
FlagAtExitKept(flag) == flag

\* process_queue: finally: queue_worker_running = False
FlagAtExit(flag) == FALSE

\* process_queue, task k: the test of `while job_queue:`; then either the
\* finally clause or popleft and run_checker up to its first await
TakeJob(k) ==
    IF job_queue = <<>>
    THEN /\ queue_worker_running' = FlagAtExit(queue_worker_running)
         /\ current_job' = 0
         /\ tasks' = [tasks EXCEPT ![k] = "done"]
         /\ UNCHANGED <<jobs, job_queue, is_running, taskJob, pool, started>>
    ELSE LET next == PopLeft(job_queue)
             job == next.job
             entered == [jobs[job] EXCEPT !.status = "running"]
             stub == StubIteration(entered, TRUE)
         IN  /\ queue_worker_running' = TRUE
             /\ job_queue' = next.rest
             /\ taskJob' = [taskJob EXCEPT ![k] = job]
             /\ current_job' = job
             /\ started' = Append(started, [job |-> job, behind |-> next.rest])
             /\ IF CHECKER_AVAILABLE
                THEN /\ jobs' = [jobs EXCEPT ![job] = entered]
                     /\ is_running' = TRUE
                     /\ pool' = Append(pool, job)
                     /\ tasks' = [tasks EXCEPT ![k] = "run"]
                ELSE /\ jobs' = [jobs EXCEPT ![job] = stub]
                     /\ is_running' = (stub.status = "running")
                     /\ tasks' = [tasks EXCEPT ![k] =
                                     IF stub.status = "running" THEN "stub"
                                     ELSE "sleep"]
                     /\ UNCHANGED pool

\* process_queue: a background task starts
ProcessQueue ==
    /\ \E k \in 1..Len(tasks) :
          /\ tasks[k] = "scheduled"
          /\ IF WorkerMayEnter(queue_worker_running)
             THEN TakeJob(k)
             ELSE /\ tasks' = [tasks EXCEPT ![k] = "done"]
                  /\ UNCHANGED <<jobs, job_queue, current_job, queue_worker_running,
                                 is_running, taskJob, pool, started>>
    /\ UNCHANGED <<thpc, thjob, current_account>>
    /\ UNCHANGED <<halted, haltAt, exhaustedAtSubmit, loadedStats, selDay, seen,
                   prevSeen, followsToday>>
    /\ UNCHANGED <<batchVars, config, statsVars>>
    /\ UNCHANGED setup
    /\ UNCHANGED served
    /\ UNCHANGED <<normal, cancelReq>>

\* run_checker, stub mode: the loop goes on after asyncio.sleep(1)
StubStep ==
    /\ \E k \in 1..Len(tasks) :
          /\ tasks[k] = "stub"
          /\ LET job == taskJob[k]
                 stub == StubIteration(jobs[job], is_running)
             IN  /\ jobs' = [jobs EXCEPT ![job] = stub]
                 /\ is_running' = (stub.status = "running" /\ is_running)
                 /\ tasks' = [tasks EXCEPT ![k] =
                                 IF stub.status = "running" THEN "stub" ELSE "sleep"]
    /\ UNCHANGED <<job_queue, current_job, queue_worker_running, taskJob>>
    /\ UNCHANGED <<batchVars, config, statsVars, threadVars, observed>>
    /\ UNCHANGED setup
    /\ UNCHANGED served

\* run_checker: run_in_executor has returned; finally: current_job = None
RunCheckerReturn ==
    /\ \E k \in 1..Len(tasks) :
          /\ tasks[k] = "run"
          /\ thjob # taskJob[k]
          /\ \A n \in 1..Len(pool) : pool[n] # taskJob[k]
          /\ tasks' = [tasks EXCEPT ![k] = "sleep"]
    /\ current_job' = 0
    /\ UNCHANGED <<jobs, job_queue, queue_worker_running, is_running, taskJob>>
    /\ UNCHANGED <<batchVars, config, statsVars, threadVars, observed>>
    /\ UNCHANGED setup
    /\ UNCHANGED served

\* process_queue: after asyncio.sleep(2), the next pass of the loop
WorkerWake ==
    /\ \E k \in 1..Len(tasks) : tasks[k] = "sleep" /\ TakeJob(k)
    /\ UNCHANGED <<thpc, thjob, current_account>>
    /\ UNCHANGED <<halted, haltAt, exhaustedAtSubmit, loadedStats, selDay, seen,
                   prevSeen, followsToday>>
    /\ UNCHANGED <<batchVars, config, statsVars>>
    /\ UNCHANGED setup
    /\ UNCHANGED served
    /\ UNCHANGED <<normal, cancelReq>>


\* run_checker_sync: the job ends with this status; is_running is cleared and
\* the thread is free again
Finish(status, error) ==
    /\ jobs' = [jobs EXCEPT ![thjob].status = status, ![thjob].error = error]
    /\ is_running' = FALSE
    /\ thpc' = "idle"
    /\ thjob' = 0
    /\ current_account' = NoAccount

\* run_checker_sync: the thread takes the call; without credentials the job
\* fails, else the stats are loaded and reset and a credential is looked for
RunCheckerSync ==
    /\ thpc = "idle"
    /\ pool # <<>>
    /\ pool' = Tail(pool)
    /\ IF instagram_accounts = <<>>
       THEN /\ jobs' = [jobs EXCEPT ![Head(pool)].status = "failed",
                                    ![Head(pool)].error = "no credentials"]
            /\ is_running' = FALSE
            /\ UNCHANGED <<thpc, thjob, current_account>>
            /\ UNCHANGED <<statsVars, loadedStats, selDay, seen, prevSeen>>
       ELSE \E ok \in BOOLEAN :
               LET read == LoadAccountStats(stats_file, ok)
                   stats == ResetDailyStatsIfNeeded(read, today)
               IN  /\ ~ok => stats_file # NoStats /\ CanFault
                   /\ faults' = IF ok THEN faults ELSE faults + 1
                   /\ account_stats' = stats
                   /\ current_account' =
                         GetAvailableAccount(instagram_accounts, stats, today)
                   /\ thjob' = Head(pool)
                   /\ thpc' = "selected"
                   /\ loadedStats' = read
                   /\ selDay' = today
                   /\ prevSeen' = seen
                   /\ seen' = [c \in Creds |-> Seen(today, TodayFollows(stats, c))]
                   /\ UNCHANGED <<jobs, is_running, stats_file, today>>
    /\ UNCHANGED <<job_queue, current_job, queue_worker_running, tasks, taskJob>>
    /\ UNCHANGED <<started, halted, haltAt, exhaustedAtSubmit, followsToday>>
    /\ UNCHANGED <<batchVars, config>>
    /\ UNCHANGED setup
    /\ UNCHANGED served
    /\ UNCHANGED <<normal, cancelReq>>

\* run_checker_sync: if not current_account: the job fails; else the
\* credential is put on the job
AccountSelected ==
    /\ thpc = "selected"
    /\ IF current_account = NoAccount
       THEN Finish("failed", "all accounts exhausted")
       ELSE /\ jobs' = [jobs EXCEPT ![thjob].instagram_account = current_account]
            /\ thpc' = "checker"
            /\ UNCHANGED <<is_running, thjob, current_account>>
    /\ UNCHANGED <<job_queue, current_job, queue_worker_running, tasks, taskJob, pool>>
    /\ UNCHANGED <<batchVars, config, statsVars, observed>>
    /\ UNCHANGED setup
    /\ UNCHANGED served

\* run_checker_sync: InstagramAppiumChecker(...) and checker.run up to its
\* loop: setup_driver may raise, login may fail and make run return
CheckerRun ==
    /\ thpc = "checker"
    /\ \E out \in {"loop", "raise", "return"} :
          /\ out # "loop" => CanFault
          /\ faults' = IF out = "loop" THEN faults ELSE faults + 1
          /\ IF out = "loop"
             THEN /\ thpc' = "loop"
                  /\ UNCHANGED <<jobs, is_running, thjob, current_account>>
             ELSE IF out = "raise"
             THEN \E msg \in Messages : Finish("failed", msg)
             ELSE Finish("completed", "")
    \* self.results = [] of the new checker
    /\ normal' = 0
    /\ UNCHANGED <<job_queue, current_job, queue_worker_running, tasks, taskJob, pool>>
    /\ UNCHANGED <<stats_file, account_stats, today>>
    /\ UNCHANGED <<started, halted, haltAt, exhaustedAtSubmit, loadedStats, selDay,
                   seen, prevSeen, followsToday, cancelReq>>
    /\ UNCHANGED <<batchVars, config>>
    /\ UNCHANGED setup
    /\ UNCHANGED served

\* what check_account reports of an account
Reports == {"no_warning", "warning_detected", "not_found", "load_failed", "error"}

\* one call of check_account as its caller and its observer see it: the
\* outcomes reported, in order, and the status of the row returned
CheckOutcome(events, status) == [events |-> events, status |-> status]

\* what a call of check_account can give: the outcome of a navigation that
\* failed or of the warning check, reported once; an exception before the
\* outcome is reported; an exception in _unfollow, after no_warning is
\* reported
CheckOutcomes ==
    { CheckOutcome(<<status>>, status) : status \in Reports }
    \cup { CheckOutcome(<<"error">>, ErrorRow(NoResult, msg).status) :
               msg \in Messages }
    \cup { CheckOutcome(<<"no_warning", "error">>, ErrorRow(NoResult, msg).status) :
               msg \in Messages }

\* progress_callback_with_stats is called with status 'no_warning'
ReportsNoWarning(events) == \E k \in 1..Len(events) : events[k] = "no_warning"

\* checker.run: one account of the loop, with progress_callback_with_stats
\* called for its start and for its outcomes; the row is appended
CheckerAccount ==
    /\ thpc = "loop"
    /\ jobs[thjob].progress < jobs[thjob].upload
    /\ jobs' = [jobs EXCEPT ![thjob].progress = @ + 1]
    /\ \E outcome \in CheckOutcomes, ok \in BOOLEAN :
          /\ normal' = IF outcome.status = "no_warning" THEN normal + 1 ELSE normal
          /\ IF ReportsNoWarning(outcome.events)
             THEN LET stats == IncrementFollowCount(account_stats, current_account,
                                                    today)
                  IN  /\ ~ok => CanFault
                      /\ faults' = IF ok THEN faults ELSE faults + 1
                      /\ account_stats' = stats
                      /\ stats_file' = SaveAccountStats(stats_file, stats, ok)
                      /\ followsToday' =
                            [followsToday EXCEPT ![current_account] = @ + 1]
                      /\ UNCHANGED today
             ELSE /\ ok
                  /\ UNCHANGED <<statsVars, followsToday>>
    /\ UNCHANGED <<job_queue, current_job, queue_worker_running, is_running, tasks,
                   taskJob>>
    /\ UNCHANGED <<started, halted, haltAt, exhaustedAtSubmit, loadedStats, selDay,
                   seen, prevSeen>>
    /\ UNCHANGED <<batchVars, config, threadVars>>
    /\ UNCHANGED setup
    /\ UNCHANGED served
    /\ UNCHANGED cancelReq

\* checker.run ends: the list is done or recovery failed (run returns), or
\* _restart_session or a save raised; then the except and finally clauses
CheckerEnd ==
    /\ thpc = "loop"
    /\ \E how \in {"exhausted", "break", "raise"} :
          /\ how = "exhausted" => jobs[thjob].progress = jobs[thjob].upload
          /\ how = "break" => jobs[thjob].progress < jobs[thjob].upload
          /\ how = "raise" => jobs[thjob].progress > 0
          /\ how # "exhausted" => CanFault
          /\ faults' = IF how = "exhausted" THEN faults ELSE faults + 1
          /\ IF how = "raise"
             THEN \E msg \in Messages : Finish("failed", msg)
             ELSE Finish("completed", "")
    /\ UNCHANGED <<job_queue, current_job, queue_worker_running, tasks, taskJob, pool>>
    /\ UNCHANGED <<stats_file, account_stats, today>>
    /\ UNCHANGED <<batchVars, config, observed>>
    /\ UNCHANGED setup
    /\ UNCHANGED served

\* a stop is asked for while current_job is running: noted with its progress
NoteHalt ==
    IF /\ current_job # 0
       /\ jobs[current_job].status = "running"
       /\ current_job \notin halted
    THEN /\ halted' = halted \cup {current_job}
         /\ haltAt' = [haltAt EXCEPT ![current_job] = jobs[current_job].progress]
    ELSE UNCHANGED <<halted, haltAt>>

\* job_queue.remove(job)
QueueRemove(q, job) == SelectSeq(q, LAMBDA j : j # job)

\* cancel_queue_job: DELETE /queue/{job_id}, with the id of a job submitted
\* or an id that was never given out
CancelQueueJob ==
    /\ CanFault
    /\ faults' = faults + 1
    /\ \E job_id \in 1..(Len(jobs) + 1) :
          IF \E n \in 1..Len(job_queue) : job_queue[n] = job_id
          THEN /\ job_queue' = QueueRemove(job_queue, job_id)
               /\ cancelReq' = CancelRequest(cancelReq.n + 1, job_id, 200)
               /\ UNCHANGED <<is_running, halted, haltAt>>
          ELSE IF current_job # 0 /\ current_job = job_id
          THEN /\ is_running' = FALSE
               /\ NoteHalt
               /\ cancelReq' = CancelRequest(cancelReq.n + 1, job_id, 200)
               /\ UNCHANGED job_queue
          ELSE /\ cancelReq' = CancelRequest(cancelReq.n + 1, job_id, 404)
               /\ UNCHANGED <<job_queue, is_running, halted, haltAt>>
    /\ UNCHANGED <<jobs, current_job, queue_worker_running, tasks, taskJob>>
    /\ UNCHANGED <<started, exhaustedAtSubmit, loadedStats, selDay, seen, prevSeen,
                   followsToday>>
    /\ UNCHANGED <<stats_file, account_stats, today>>
    /\ UNCHANGED <<batchVars, config, threadVars>>
    /\ UNCHANGED setup
    /\ UNCHANGED served
    /\ UNCHANGED normal

\* stop_checker: POST /stop
StopChecker ==
    /\ is_running
    /\ CanFault
    /\ faults' = faults + 1
    /\ is_running' = FALSE
    /\ NoteHalt
    /\ UNCHANGED <<jobs, job_queue, current_job, queue_worker_running, tasks, taskJob>>
    /\ UNCHANGED <<started, exhaustedAtSubmit, loadedStats, selDay, seen, prevSeen,
                   followsToday>>
    /\ UNCHANGED <<stats_file, account_stats, today>>
    /\ UNCHANGED <<batchVars, config, threadVars>>
    /\ UNCHANGED setup
    /\ UNCHANGED served
    /\ UNCHANGED <<normal, cancelReq>>

\* midnight: date.today() changes
DayAdvance ==
    /\ CanFault
    /\ faults' = faults + 1
    /\ today' = today + 1
    /\ followsToday' = [c \in Creds |-> 0]
    /\ UNCHANGED <<stats_file, account_stats>>
    /\ UNCHANGED <<started, halted, haltAt, exhaustedAtSubmit, loadedStats, selDay,
                   seen, prevSeen>>
    /\ UNCHANGED <<batchVars, config, queueVars, threadVars>>
    /\ UNCHANGED setup
    /\ UNCHANGED served
    /\ UNCHANGED <<normal, cancelReq>>

WebNext ==
    \/ StartChecker(UploadName, "file")
    \/ ProcessQueue
    \/ StubStep
    \/ RunCheckerReturn
    \/ WorkerWake
    \/ RunCheckerSync
    \/ AccountSelected
    \/ CheckerRun
    \/ CheckerAccount
    \/ CheckerEnd
    \/ CancelQueueJob
    \/ StopChecker
    \/ DayAdvance

WebSpec == WebInit /\ [][WebNext]_vars

(***************************************************************************)
(* The requests that name a file, with any of the names explored and       *)
(* whatever the directory holds under the name.                            *)
(***************************************************************************)
FileNext ==
    \/ \E filename \in Filenames, entry \in Entries : StartChecker(filename, entry)
    \/ \E filename \in Filenames, entry \in Entries : DownloadResult(filename, entry)

\* the service without checker_appium: no credentials, no stats
FileInit == WebInit /\ ~CHECKER_AVAILABLE

FileSpec == FileInit /\ [][FileNext]_vars

(***************************************************************************)
(* The service with its scheduling: the event loop resumes every task that *)
(* is ready (a background task that was added, a task whose sleep is over, *)
(* a task whose call in the pool has returned), and the thread of the pool *)
(* takes the next call and goes on with the one it has, every driver call  *)
(* returning or raising. Requests may come or not.                         *)
(***************************************************************************)
\* no stats file yet, at most one credential
QueueInit == WebInit /\ stats_file = NoStats /\ Len(instagram_accounts) <= 1

\* the requests and the steps of the worker and of the thread, within one day
QueueNext ==
    \/ StartChecker(UploadName, "file")
    \/ ProcessQueue
    \/ StubStep
    \/ RunCheckerReturn
    \/ WorkerWake
    \/ RunCheckerSync
    \/ AccountSelected
    \/ CheckerRun
    \/ CheckerAccount
    \/ CheckerEnd
    \/ CancelQueueJob
    \/ StopChecker

FairWebSpec ==
    /\ QueueInit
    /\ [][QueueNext]_vars
    /\ WF_vars(ProcessQueue)
    /\ WF_vars(StubStep)
    /\ WF_vars(WorkerWake)
    /\ WF_vars(RunCheckerReturn)
    /\ WF_vars(RunCheckerSync)
    /\ WF_vars(AccountSelected)
    /\ WF_vars(CheckerRun)
    /\ WF_vars(CheckerAccount)
    /\ WF_vars(CheckerEnd)


(***************************************************************************)
(* Properties of check_account and open_profile.                           *)
(*                                                                         *)
(* cpc = "return" is the state in which check_account has returned         *)
(* `result` to run and run has not yet appended it.                        *)
(***************************************************************************)
Returned == pc = "check" /\ cpc = "return"

\* C1: every row check_account returns has has_warning true exactly when its
\* status is warning_detected, and a screenshot exactly when has_warning is
\* true, whatever the driver did (an exception after the detection included).
C1_RowInvariant ==
    Returned =>
        /\ Truthy(result.has_warning) <=> result.status = "warning_detected"
        /\ result.screenshot # "" <=> Truthy(result.has_warning)

\* a driver or adb call failed during the check that has just returned
DriverCallFailed ==
    \/ caught # ""
    \/ \E k \in 1..Len(tries) : tries[k].raised

\* C2 as stated: check_account never raises, and whatever call failed at
\* whatever step, the row it returns has a status that starts with 'error'.
C2_AnyFailureIsErrorRow ==
    /\ raisedBy # "check_account"
    /\ Returned /\ DriverCallFailed => StartsWith(result.status, "error")

\* C2 amended: check_account never raises and always hands a row to run, which
\* appends it and goes on; the row has status 'error: <message>' exactly when
\* an exception reached the handler of check_account, and status 'error'
\* exactly when the last navigation attempt raised; an exception of an
\* earlier navigation attempt is retried and leaves no trace in the row.
C2_CaughtFailureIsErrorRow ==
    /\ raisedBy # "check_account"
    /\ Returned =>
          /\ ENABLED AppendResult
          /\ caught # "" <=> StartsWith(result.status, "error: ")
          /\ caught # "" => result.status = "error: " \o caught
          /\ result.status = "error" <=>
                /\ caught = ""
                /\ Len(tries) = ProfileMaxRetries
                /\ tries[Len(tries)].raised
          /\ result.status # "unknown"

\* an error row has been appended and the loop has gone on to the next account
C2_Witness ==
    /\ pc = "check"
    /\ cpc = "open_profile"
    /\ i = 2
    /\ Len(results) = 1
    /\ results[1].status = "error: timeout"

\* C3: whatever the outcome, the last thing check_account does before it
\* returns is _go_home.
C3_HomeIsLastStep ==
    Returned => trail[Len(trail)] = "go_home"

\* a page on which an attempt of open_profile ends neither way
BlankPage(obs) ==
    /\ ~obs.raised
    /\ ~obs.unavailable
    /\ ~(obs.length > 1000 /\ obs.recognizable)

\* C5: open_profile makes at most 3 attempts and returns one of four values:
\* not_found at the first attempt that shows an unavailable page, success at
\* the first attempt that shows recognizable content, load_failed only after
\* 3 attempts the last of which showed a blank page, error only when the
\* third attempt raised.
C5_OpenProfile ==
    /\ Len(tries) <= 3
    /\ \A k \in 1..(Len(tries) - 1) : tries[k].raised \/ BlankPage(tries[k])
    /\ cpc = "open_profile" =>
          /\ profile_result = ""
          /\ Len(tries) = attempt
          /\ attempt < 3
          /\ \A k \in 1..Len(tries) : tries[k].raised \/ BlankPage(tries[k])
    /\ profile_result # "" =>
          LET n == Len(tries)
              last == tries[n]
          IN  /\ n >= 1
              /\ profile_result \in {"success", "not_found", "load_failed", "error"}
              /\ profile_result = "not_found" <=>
                    ~last.raised /\ last.unavailable
              /\ profile_result = "success" <=>
                    /\ ~last.raised
                    /\ ~last.unavailable
                    /\ last.length > 1000
                    /\ last.recognizable
              /\ profile_result = "load_failed" <=> n = 3 /\ BlankPage(last)
              /\ profile_result = "error" <=> n = 3 /\ last.raised

\* three attempts were used up: an exception, then two blank pages
C5_Witness ==
    /\ profile_result = "load_failed"
    /\ Len(tries) = 3
    /\ tries[1].raised
    /\ BlankPage(tries[3])


(***************************************************************************)
(* Properties of run.                                                      *)
(***************************************************************************)
\* check_account calls of this run that have returned and been appended
ChecksDone == Len(checked) - (IF pc = "check" THEN 1 ELSE 0)

\* C4: the accounts are checked in list order, each check adds exactly one
\* row, also for a username listed twice, and at every point the result list
\* is the rows carried over from the file followed by one row per account
\* checked so far.
C4_OneRowPerAccount ==
    /\ Len(checked) <= Len(accounts)
    /\ \A k \in 1..Len(checked) : checked[k] = accounts[k]
    /\ Len(results) = Len(carried) + ChecksDone
    /\ \A k \in 1..Len(carried) : results[k] = carried[k]
    /\ \A k \in 1..ChecksDone : results[Len(carried) + k].username = accounts[k]

\* a resumed run that carried rows over and then checked a username that is
\* listed twice: both checks have their row
C4_Witness ==
    /\ pc = "done"
    /\ carried # <<>>
    /\ Len(results) = Len(carried) + 2
    /\ results[Len(carried) + 1].username = results[Len(carried) + 2].username

\* every row of the result list is in the results file
AllResultsInFile ==
    \A k \in 1..Len(results) :
        \E j \in 1..Len(file) : file[j] = CsvRow(results[k])

\* C6: the session is probed before each account and recovery is attempted
\* when the probe fails; when recovery fails no account is checked after
\* that, and when run has ended every row accumulated is in the file.
C6_RecoveryFailureStopsBatch ==
    /\ pc \in {"restart", "check", "midsave", "sleep"} => i \in probed
    /\ \A k \in 1..Len(checked) : k \in probed
    /\ recovered \subseteq probed
    /\ lost # 0 =>
          /\ lost \in recovered
          /\ pc \in {"finalsave", "done", "raised"}
          /\ pc = "raised" => raisedBy = "save_results_to_csv"
          /\ i = lost
          /\ Len(checked) = lost - 1
          /\ pc = "done" => AllResultsInFile

\* recovery failed at the third account: two rows, both in the file
C6_Witness ==
    /\ lost = 3
    /\ pc = "done"
    /\ Len(results) = 2
    /\ Len(file) = 2

\* loop indices for which run has passed its restart decision
RestartDecided ==
    IF pc \in {"probe", "restart"} \/ (lost # 0 /\ lost = i) THEN i - 1 ELSE i

\* C7: with batch size N a planned restart runs before the i-th account of
\* the run exactly for the i > 1 with (i - 1) mod N = 0, whether the session
\* was alive or had just been recovered; N = 2 and 5 accounts: before 3 and 5.
C7_RestartEveryN ==
    /\ restarts = { k \in 2..RestartDecided : (k - 1) % batch_size = 0 }
    /\ (batch_size = 2 /\ Len(accounts) = 5 /\ pc = "done" /\ lost = 0)
          => restarts = {3, 5}

\* five accounts, batch size 2, the session recovered at the third
C7_Witness ==
    /\ batch_size = 2
    /\ Len(accounts) = 5
    /\ pc = "done"
    /\ restarts = {3, 5}
    /\ 3 \in recovered

\* C8: the whole result list is written after every 5th account and once more
\* when the batch ends, however it ends (list exhausted, recovery failure,
\* restart failure), so that at most 4 rows are ever missing from the file.
C8_SavedWheneverBatchEnds ==
    /\ (pc = "sleep" /\ i % 5 = 0) => AllResultsInFile
    /\ (pc = "done" \/ (pc = "raised" /\ raisedBy = "_restart_session"))
          => AllResultsInFile
    /\ pc \in {"loop", "probe", "restart", "sleep"} =>
          Cardinality({ k \in 1..Len(results) :
                          \A j \in 1..Len(file) : file[j] # CsvRow(results[k]) }) <= 4

\* the file of this run has a row for u with a status that is final
HasTerminalRow(f, u, retry) ==
    \E k \in 1..Len(f) : f[k].username = u /\ Terminal(f[k].status, retry)

\* run has passed the resume step
PastResume ==
    \/ pc \in {"loop", "probe", "restart", "check", "midsave", "sleep",
               "finalsave", "done"}
    \/ pc = "raised" /\ raisedBy # "setup_driver"

Completed(f, retry) == LoadCompleted(f, retry).completed

\* C10: resume is idempotent. A resumed run keeps every account completed
\* that the file it found had completed, so that loading the file again gives
\* at least that set, and in a sequence of resumed runs an account is not
\* checked once a row for it with a status terminal for the run is in the file.
C10_ResumeIdempotent ==
    (resume /\ PastResume) =>
        /\ Completed(startFile, retry_errors) \subseteq Completed(file, retry_errors)
        /\ \A k \in 1..Len(checked) :
              /\ checked[k] \notin Completed(startFile, retry_errors)
              /\ \A r \in settled : r.username # checked[k]

\* a second run resumed over the output of a run that a failed restart cut
\* short: it checks what was left and the completed set has grown
C10_Witness ==
    /\ runNo = 2
    /\ resume
    /\ pc = "done"
    /\ Completed(startFile, retry_errors) # {}
    /\ Completed(startFile, retry_errors) # Completed(file, retry_errors)
    /\ checked # <<>>

(***************************************************************************)
(* Properties of the result store on resume.                               *)
(***************************************************************************)
\* C11: no row is dropped on resume: every row of the file a resumed run
\* found is, field for field, in the file as that run leaves it, with
\* retry_errors on or off, and also when the row is for a username that is
\* not in the input list.
C11_NoRowDropped ==
    (resume /\ PastResume) =>
        \A k \in 1..Len(startFile) :
            \E j \in 1..Len(file) : file[j] = startFile[k]

\* the rows of a result list with this status
WithStatus(res, status) ==
    Cardinality({ k \in 1..Len(res) : res[k].status = status })

\* C12: the summary reported when the batch completes counts the rows of the
\* result list per status: warnings the rows with warning_detected, normal
\* those with no_warning, and so for not_found, load_failed and the error
\* rows, rows carried over from a resumed file included.
C12_SummaryCountsStatuses ==
    pc = "done" =>
        /\ summary.warnings = WithStatus(results, "warning_detected")
        /\ summary.normal = WithStatus(results, "no_warning")
        /\ summary.not_found = WithStatus(results, "not_found")
        /\ summary.load_failed = WithStatus(results, "load_failed")
        /\ summary.errors =
              Cardinality({ k \in 1..Len(results) :
                              \/ results[k].status = "error"
                              \/ StartsWith(results[k].status, "error: ") })

(***************************************************************************)
(* Properties of the web service.                                          *)
(***************************************************************************)
\* jobs in status 'running'
RunningJobs == { j \in 1..Len(jobs) : jobs[j].status = "running" }

\* process_queue tasks that are inside run_checker
InRunChecker == { k \in 1..Len(tasks) : tasks[k] \in {"run", "stub"} }

\* C13: at most one batch run is active at any time, however submit requests,
\* the start of worker tasks and the end of jobs interleave: no two jobs are
\* 'running' together, run_checker is not entered for a job before it has
\* returned for the one before, and run_checker_sync has at most one call.
C13_OneBatchAtATime ==
    /\ Cardinality(RunningJobs) <= 1
    /\ Cardinality(InRunChecker) <= 1
    /\ Len(pool) + (IF thpc = "idle" THEN 0 ELSE 1) <= 1
    /\ \A j \in RunningJobs : \E k \in InRunChecker : taskJob[k] = j

\* the first job is running, the second waits, and the worker task that the
\* second submission scheduled has not started yet
C13_Witness ==
    /\ Len(jobs) = 2
    /\ jobs[1].status = "running"
    /\ job_queue = <<2>>
    /\ tasks = <<"run", "scheduled">>

\* C14: jobs are started in the order of their submission: a job enters
\* 'running' only after every job submitted before it has done so or has been
\* cancelled while it waited.
C14_StartedInOrder ==
    /\ \A x \in 1..Len(started) : \A y \in 1..Len(started) :
          x < y => started[x].job < started[y].job
    /\ \A k \in 1..Len(started) : \A n \in 1..Len(job_queue) :
          started[k].job < job_queue[n]

\* two jobs waited together and both have been started
C14_Witness ==
    /\ Len(started) = 2
    /\ started[1].behind = <<2>>
    /\ started[2].job = 2

\* C15: after a cancel or stop request for the running job the account check
\* in progress is finished and no further account of that job is checked.
C15_StopsAtNextAccount ==
    \A j \in halted : jobs[j].progress <= haltAt[j] + 1

\* C16: a job submitted while every configured credential is at its daily
\* cap is not queued: it is failed with 'all accounts exhausted' and the
\* checker is never made for it.
C16_ExhaustedSubmissionFails ==
    \A j \in exhaustedAtSubmit :
        /\ \A n \in 1..Len(job_queue) : job_queue[n] # j
        /\ jobs[j].status = "failed"
        /\ jobs[j].error = "all accounts exhausted"
        /\ jobs[j].instagram_account = NoAccount

\* C17: the daily follow counter of a credential never exceeds the cap, in
\* memory or in the stats file, at any point of any job.
C17_CounterWithinCap ==
    /\ \A c \in DOMAIN account_stats :
          account_stats[c].today_follows <= MAX_FOLLOWS_PER_DAY
    /\ \A c \in DOMAIN stats_file :
          stats_file[c].today_follows <= MAX_FOLLOWS_PER_DAY

\* the counter of a credential for the day of the last selection, by the
\* stats that selection loaded: a record of another day and no record count 0
CounterAtSelection(c) ==
    IF c \in DOMAIN loadedStats /\ loadedStats[c].last_reset_date = selDay
    THEN loadedStats[c].today_follows
    ELSE 0

\* positions of the configured credentials whose counter was below the cap
FreeAtSelection ==
    { k \in 1..Len(instagram_accounts) :
        CounterAtSelection(instagram_accounts[k]) < 60 }

\* C18: get_available_account returns the first credential in configured
\* order whose counter for today is strictly below the cap, and None exactly
\* when there is none; the credential put on a job is below the cap.
C18_FirstBelowCap ==
    /\ thpc = "selected" =>
          /\ current_account = NoAccount <=> FreeAtSelection = {}
          /\ current_account # NoAccount =>
                \E k \in FreeAtSelection :
                    /\ instagram_accounts[k] = current_account
                    /\ \A j \in 1..(k - 1) : j \notin FreeAtSelection
    /\ thpc = "checker" =>
          /\ jobs[thjob].instagram_account = current_account
          /\ TodayFollows(account_stats, current_account) < 60

\* the first credential is at the cap today and the second one is selected
C18_Witness ==
    /\ thpc = "selected"
    /\ current_account = "acc2"
    /\ CounterAtSelection("acc1") = 60
    /\ CounterAtSelection("acc2") = 59

\* C19: the counters are reset when the stored date is not the current date,
\* once per day: after a reset the stored date is today and a second reset
\* changes nothing; a follow counted after the date has advanced, also in the
\* middle of a job, goes to the counter of the new day.
C19_ResetOncePerDay ==
    LET reset == ResetDailyStatsIfNeeded(account_stats, today)
    IN  /\ \A c \in DOMAIN reset : reset[c].last_reset_date = today
        /\ ResetDailyStatsIfNeeded(reset, today) = reset
        /\ \A c \in Creds :
              followsToday[c] > 0 =>
                  /\ c \in DOMAIN account_stats
                  /\ account_stats[c].last_reset_date = today
                  /\ account_stats[c].today_follows >= followsToday[c]

\* C20: within one day the counter of a credential, as account selection sees
\* it, never decreases from one selection to the next, whatever jobs, progress
\* callbacks, loads and saves (failed ones included) lie between them.
C20_CounterNeverDecreases ==
    \A c \in Creds :
        prevSeen[c].day = seen[c].day => prevSeen[c].count <= seen[c].count

(***************************************************************************)
(* Failures of the environment in run, pacing and the result store.        *)
(***************************************************************************)
\* C24: a failure while writing the results file at a persistence point (the
\* save after every 5th account, the save after the loop) does not end run:
\* the loop goes on with the accumulated results unchanged and only that save
\* is lost.
C24_SaveFailureDoesNotStop ==
    raisedBy # "save_results_to_csv"

\* C26: writing a result set with save_results_to_csv and reading the file
\* back gives the same rows in the same order, has_warning included.
C26_StoreRoundTrip ==
    results # <<>> =>
        LoadCompleted(SavedFile(file, results), retry_errors).existing = results

\* C30: in open_profile the return to the home screen comes between any two
\* consecutive navigation attempts, after a blank page and after an exception.
C30_HomeBetweenAttempts ==
    \A k \in 1..(Len(trail) - 1) :
        ~(trail[k] = "navigate" /\ trail[k + 1] = "navigate")

(***************************************************************************)
(* Steps of check_account.                                                 *)
(***************************************************************************)
\* the step was made in the check under way
Did(step) == \E k \in 1..Len(trail) : trail[k] = step

\* C28: the unfollow step of check_account is made exactly when the warning
\* check did not match: after a detected warning no unfollow is attempted and
\* the dialog is dismissed only after it was captured; without a warning the
\* unfollow is attempted, and a missing following/requested control leaves the
\* outcome no_warning.
C28_UnfollowIffNoWarning ==
    /\ cpc \in {"go_home", "return"} /\ Did("warning_check") =>
          (Did("unfollow") <=> ~Did("warning_details"))
    /\ Did("dismiss_warning") => Did("screenshot") /\ ~Did("unfollow")
    /\ Returned /\ Did("no_button") =>
          /\ result.status = "no_warning"
          /\ caught = ""

\* a check without warning has returned; its unfollow found no control
C28_Witness ==
    /\ Returned
    /\ Did("no_button")
    /\ result.status = "no_warning"
    /\ Did("clicked")

\* the steps of a check whose navigation failed with this outcome
FailedNavigationSteps(outcome) ==
    {"report:checking", "navigate", "go_home", "report:" \o outcome}

\* the row and the steps of a check whose navigation did not end in success
FailedNavigation ==
    /\ result.status = profile_result
    /\ result.status = "not_found" <=> tries[Len(tries)].unavailable
    /\ result.has_warning = PyBool(FALSE)
    /\ result.screenshot = ""
    /\ caught = ""
    /\ \A k \in 1..Len(trail) : trail[k] \in FailedNavigationSteps(profile_result)

\* C29: an account whose navigation does not end in success gets a row with
\* the navigation outcome as status (not_found for the unavailable text) and
\* has_warning false; no follow click, tap, warning check or unfollow is made
\* for it; the rows of the other accounts stay as they are: the check leaves
\* them alone and run appends the new row behind them.
C29_FailedNavigationRow ==
    [][/\ (Returned /\ profile_result # "success")' => FailedNavigation'
       /\ pc = "check" /\ results' # results =>
             results' = Append(results, result)]_vars

\* the second account of a list was not found, the first has its row
C29_Witness ==
    /\ Returned
    /\ profile_result = "not_found"
    /\ i = 2
    /\ Len(results) = 1
    /\ results[1].status \in {"no_warning", "warning_detected"}

\* C22: a failure of the planned session restart is not swallowed:
\* _restart_session raises, run ends with that exception, and the account
\* before which the restart failed, like every account after it, is not
\* checked.
C22_RestartFailureIsFatal ==
    broken # 0 =>
        /\ pc = "raised"
        /\ raisedBy = "_restart_session"
        /\ i = broken
        /\ Len(checked) = broken - 1
        /\ cpc = "idle"

\* the restart before the third account failed after two checks
C22_Witness ==
    /\ broken = 3
    /\ batch_size = 2
    /\ Len(checked) = 2
    /\ Len(accounts) >= 3

\* C23: after each account check of run, whatever its outcome, the delay is
\* slept before the check of the next account begins: when a check begins,
\* one delay was slept after each of the checks before it, and none other.
C23_OneDelayBetweenChecks ==
    /\ \A k \in 1..Len(paced) : paced[k] = k
    /\ Len(paced) <= Len(checked)
    /\ pc = "check" => Len(checked) = i /\ Len(paced) = i - 1

\* the third check begins after a check that found nothing and one that ended
\* without warning
C23_Witness ==
    /\ pc = "check"
    /\ i = 3
    /\ paced = <<1, 2>>
    /\ results[1].status = "not_found"
    /\ results[2].status = "no_warning"

(***************************************************************************)
(* The observer.                                                           *)
(***************************************************************************)
\* C21: an exception the observer raises at any event is caught inside
\* _report_progress: it leaves neither check_account nor run, it is not the
\* exception the handler of check_account turns into an error row, and the
\* batch goes on: a run that no session loss ended gives every account of
\* its list a row.
C21_ObserverExceptionCaught ==
    /\ raisedBy \notin {"_report_progress", "check_account"}
    /\ caught # ObserverMessage
    /\ \A k \in 1..Len(results) : results[k].status # "error: " \o ObserverMessage
    /\ Returned /\ caught = "" /\ profile_result = "success" =>
          result.status \in {"no_warning", "warning_detected"}
    /\ pc = "done" /\ lost = 0 => Len(results) = Len(accounts)

\* the observer raised at every event of a run over one account, which ended
\* without warning
C21_Witness ==
    /\ pc = "done"
    /\ {"starting", "checking", "no_warning", "completed"} \subseteq swallowed
    /\ Len(results) = 1
    /\ results[1].status = "no_warning"

(***************************************************************************)
(* setup_driver.                                                           *)
(***************************************************************************)
\* C25: setup_driver makes at most max_retries attempts, with one back-off
\* between consecutive attempts; it returns at the first attempt that
\* succeeds, with the session established, and raises when every attempt
\* failed; for every max_retries it ends in one of these two ways.
C25_SetupDriver ==
    LET n == Len(setup.outs)
    IN  /\ n <= setup.max_retries
        /\ setup.pc = "attempt" => setup.sleeps = n
        /\ setup.pc \in {"returned", "raised"} /\ n > 0 => setup.sleeps = n - 1
        /\ \A k \in 1..(n - 1) : setup.outs[k] # "ok"
        /\ setup.pc = "returned" =>
              /\ n > 0
              /\ setup.outs[n] = "ok"
              /\ setup.driver = "live"
        /\ setup.pc = "raised" =>
              /\ n = setup.max_retries
              /\ setup.outs[n] # "ok"

(***************************************************************************)
(* File names.                                                             *)
(***************************************************************************)
\* the names of those explored that the endpoints must refuse
BadNames ==
    { filename \in Filenames :
        \/ filename = ""
        \/ StrIn("/", filename)
        \/ filename \in {".", ".."}
        \/ Lower(Suffix(filename)) # ".csv" }

BadName(filename) == filename \in BadNames

\* C27: a file name the submit or download endpoint accepts resolves to a file
\* directly inside the intended directory (uploads, results) and has the
\* extension .csv; a name that is empty, holds a path separator, is . or ..
\* or has another extension is refused with an error, before a file is
\* opened or a job queued.
C27_SafeFileNames ==
    /\ served.status \in {200, 404} =>
          /\ ~BadName(served.filename)
          /\ served.path.parent = IF served.endpoint = "start" THEN UPLOAD_DIR
                                  ELSE RESULTS_DIR
          /\ ~StrIn("/", served.path.name)
    /\ served # NoRequest /\ BadName(served.filename) =>
          /\ served.status = 400
          /\ ~served.queued
          /\ ~served.opened
    /\ \A j \in 1..Len(jobs) : ~BadName(jobs[j].filename)

\* a job was queued for an uploaded file, then a download that names a file
\* of the directory above was refused
C27_Witness ==
    /\ Len(jobs) = 1
    /\ jobs[1].filename = UploadName
    /\ served.endpoint = "download"
    /\ served.filename = "../a.csv"
    /\ served.status = 400

(***************************************************************************)
(* The progress events of one account check.                               *)
(***************************************************************************)
\* the status tags that report the outcome of a check
Outcomes == {"warning_detected", "no_warning", "not_found", "load_failed", "error"}

\* the outcome events the observer received in the check so far, in order
OutcomeEvents ==
    IF on_progress.given
    THEN SelectSeq(trail, LAMBDA e : e \in { "report:" \o t : t \in Outcomes })
    ELSE <<>>

\* the status tag of an event agrees with the status of a row
TagAgrees(event, status) ==
    \/ event = "report:" \o status
    \/ event = "report:error" /\ StartsWith(status, "error: ")

\* C35: when check_account has returned the row of an account to a run that
\* was given an observer, the observer received exactly one outcome event in
\* that check, and its status tag agrees with the status of the row
C35_OneOutcomeEvent ==
    (Returned /\ on_progress.given) =>
        /\ Len(OutcomeEvents) = 1
        /\ TagAgrees(OutcomeEvents[1], result.status)

(***************************************************************************)
(* Properties of the jobs of the web service.                              *)
(***************************************************************************)
\* C36: while the checker of a job runs, the follow counter of the
\* credential in use is the counter the selection saw plus the number of
\* rows with status no_warning the run has produced: it grows by one with
\* each such row and with no other row, up to the end of the run
C36_FollowsCountNoWarningRows ==
    thpc = "loop" =>
        TodayFollows(account_stats, current_account)
            = seen[current_account].count + normal

\* C37: a job has status 'completed' only if every account of its file was
\* checked: a run that stopped before the end of the list does not leave the
\* job 'completed'
C37_CompletedMeansAllChecked ==
    \A j \in 1..Len(jobs) :
        jobs[j].status = "completed" => jobs[j].progress = jobs[j].upload

\* the job is in the queue
Queued(j) == \E n \in 1..Len(job_queue) : job_queue[n] = j

\* the job has status 'running'
Running(j) == j \in 1..Len(jobs) /\ jobs[j].status = "running"

\* the sequence q without its n-th element
Without(q, n) == SubSeq(q, 1, n - 1) \o SubSeq(q, n + 1, Len(q))

\* C32: a cancel request for a queued job is answered with success and
\* removes that job from the queue, leaving the other queued jobs in their
\* order and the jobs, the running job and the worker as they were; a job
\* cancelled while queued (pending, no longer in the queue) stays pending; a
\* cancel request for an id neither queued nor running is answered with 404
\* and changes nothing of the service
C32_CancelFrame ==
    [][LET job_id == cancelReq'.job_id
       IN  /\ (cancelReq'.n = cancelReq.n + 1 /\ Queued(job_id)) =>
                 /\ cancelReq'.status = 200
                 /\ \E n \in 1..Len(job_queue) :
                       /\ job_queue[n] = job_id
                       /\ job_queue' = Without(job_queue, n)
                 /\ UNCHANGED <<jobs, current_job, queue_worker_running,
                                is_running, tasks, taskJob, threadVars>>
           /\ \A j \in 1..Len(jobs) :
                 (jobs[j].status = "pending" /\ ~Queued(j)) =>
                     jobs'[j].status = "pending"
           /\ (cancelReq'.n = cancelReq.n + 1 /\ ~Queued(job_id)
                  /\ ~Running(job_id)) =>
                 /\ cancelReq'.status = 404
                 /\ UNCHANGED <<config, stats_file, account_stats, today,
                                queueVars, threadVars>>
      ]_vars

\* the job has entered status 'running'
Entered(j) == \E k \in 1..Len(started) : started[k].job = j

\* the job was removed from the queue by a cancel request
CancelledWhileQueued(j) ==
    j \in 1..Len(jobs) /\ jobs[j].status = "pending" /\ ~Queued(j)

\* the job has run and has a terminal status
Ended(j) ==
    /\ j \in 1..Len(jobs)
    /\ Entered(j)
    /\ jobs[j].status \in {"completed", "failed", "cancelled"}

\* C34: every job in the queue is later either cancelled while queued, or
\* has entered 'running' and has a terminal status
C34_NoJobLost ==
    \A j \in 1..MaxJobs : Queued(j) ~> (CancelledWhileQueued(j) \/ Ended(j))

\* a job that waited in the queue behind another has run and has ended
C34_Witness ==
    /\ Len(started) = 2
    /\ started[1].behind # <<>>
    /\ Ended(started[2].job)

(***************************************************************************)
(* Resume with and without retry_errors.                                   *)
(***************************************************************************)
\* the status of a check that failed: error, with or without message, or
\* load_failed
FailedStatus(status) ==
    status \in {"error", "load_failed"} \/ StartsWith(status, "error: ")

\* the file the run found has a row of a failed check for u
PriorFailed(u) ==
    \E k \in 1..Len(startFile) :
        startFile[k].username = u /\ FailedStatus(startFile[k].status)

\* the rows of the file for u
RowsFor(f, u) == { k \in 1..Len(f) : f[k].username = u }

\* C31: in a resumed run, an entry of the input list whose row in the file
\* found has status error (with or without message) or load_failed is left
\* out of the to-process list when retry_errors is off; when retry_errors is
\* on it is in the to-process list whatever the message, and when the run has
\* ended the file holds exactly one row for it
C31_RetryErrors ==
    (PastResume /\ resume) =>
        \A k \in 1..Len(input) :
            LET u == input[k]
                todo == \E n \in 1..Len(accounts) : accounts[n] = u
            IN  PriorFailed(u) =>
                    /\ ~retry_errors => ~todo
                    /\ retry_errors => todo
                    /\ (retry_errors /\ pc = "done") =>
                           Cardinality(RowsFor(file, u)) = 1

(***************************************************************************)
(* Termination of run.                                                     *)
(***************************************************************************)
\* run has returned or raised
RunEnded == pc \in {"done", "raised", "returned"}

\* C33: a run that has started ends; open_profile makes at most 3
\* navigation attempts in a check, and the loop passes each entry of the
\* to-process list to check_account at most once, in the order of the list
C33_RunTerminates ==
    /\ (pc = "setup") ~> RunEnded
    /\ [](/\ attempt <= ProfileMaxRetries
          /\ Len(tries) <= ProfileMaxRetries
          /\ i <= Len(accounts)
          /\ Len(checked) <= i
          /\ \A k \in 1..Len(checked) : checked[k] = accounts[k])

\* a run over the longest list has ended after checking every entry, with a
\* deviation of the environment on the way
C33_Witness ==
    /\ pc = "done"
    /\ Len(input) = TermAccounts
    /\ checked = input
    /\ dev > 0

============================================================================
